---- MODULE Spec2Model ----
(***************************************************************************)
(* State-machine model of the Apple Music plugin for FlexBar:              *)
(*   src/src/cache.js           the track cache                            *)
(*   src/unnamed/part_003       music_control: the player queries          *)
(*   src/src/utils.js           safeExecute, ifDeviceConnected, commands   *)
(*   src/package.json:39-98     interval-utils: the managed intervals      *)
(*   src/src/plugin.js          the event handlers and timer callbacks     *)
(*                                                                         *)
(* JavaScript runs one callback at a time; a handler is suspended only at  *)
(* an await on I/O (plugin.getConfig, osascript, fs).  Every action below  *)
(* is one such uninterrupted run: from the resumption of a task (or the    *)
(* arrival of an event) to its next await on I/O or its end.               *)
(***************************************************************************)
EXTENDS Integers, Sequences, FiniteSets, TLC

VARIABLES
  cache,             \* cache.js: trackCache
  now,               \* Date.now(), in milliseconds
  call,              \* the last direct call of a cache.js function (CacheSpec)
  connectedDevices,  \* consts.js: connectedDevices
  keyData,           \* consts.js: keyData, uid -> key object
  updateIntervals,   \* consts.js: updateIntervals, name -> interval
  unreferenced,      \* running intervals that updateIntervals does not hold
  tasks,             \* the async handlers and callbacks suspended on I/O
  player,            \* the Music application (environment)
  artworkFile,       \* the file at ARTWORK_PATH
  lastDraw,          \* the safeDraw call of the last step, if any
  lastQuery,         \* the return of getTrackInfoWithAppleScript in the last
                     \* step, if any
  lastError,         \* what became of an exception in the last step: one a
                     \* timer callback threw ("caught", "unhandled"), or a
                     \* failure of plugin.draw ("logged", "swallowed",
                     \* "thrown"); "none" without one
  config,            \* the configuration the host holds (plugin.getConfig,
                     \* setConfig): updateRate and its two bounds
  display,           \* what plugin.draw does when it is called: "ok",
                     \* "throws" (synchronously) or "rejects" (its promise)
  events             \* host events, timer firings, clock ticks and player
                     \* changes so far

vars == <<cache, now, call, connectedDevices, keyData, updateIntervals, unreferenced,
          tasks, player, artworkFile, lastDraw, lastQuery, lastError,
          events, config, display>>

pluginVars == <<connectedDevices, keyData, updateIntervals, unreferenced, tasks,
                player, artworkFile, lastDraw, lastQuery, lastError,
                events, config, display>>

(***************************************************************************)
(* Bounds of the model.                                                    *)
(***************************************************************************)
MaxTicks == 2     \* clock steps taken after the start
MaxTasks == 2     \* handlers and callbacks suspended at the same time
MaxEvents == 3    \* host events, timer firings, clock ticks and player changes in one run

(***************************************************************************)
(* Values.                                                                 *)
(***************************************************************************)
Null == "<null>"                \* JavaScript null
FiveMinutes == 5 * 60 * 1000    \* cache.js: 5 * 60 * 1000
StartNow == 3 * FiveMinutes     \* Date.now() at start: far from the epoch
ClockStep == FiveMinutes        \* the clock is observed every 5 minutes

Tracks == {"t1", "t2"}          \* track ids of the player
NoTrack == "no_track"
Positions == {0, 30}            \* player position, seconds

TitleOf(t) == IF t = "t1" THEN "Song A" ELSE "Song B"
ArtistOf(t) == IF t = "t1" THEN "Artist A" ELSE ""
AlbumOf(t) == IF t = "t1" THEN "Album A" ELSE ""
DurationOf(t) == IF t = "t1" THEN 200 ELSE 0
ArtworkOf(t) == IF t = "t1" THEN "data:image/jpeg;base64,A"
                ELSE "data:image/jpeg;base64,B"
HasArtwork(t) == t = "t1"

NoTrackTitle == "No track is playing"
NoArtwork == "No artwork available"
ArtworkReadError == "Error reading artwork file"

\* JavaScript a || b on strings (null and "" are falsy) and on numbers (0).
OrStr(a, b) == IF a \in {Null, ""} THEN b ELSE a
OrNum(a, b) == IF a = 0 THEN b ELSE a
Truthy(s) == s \notin {Null, ""}

(***************************************************************************)
(* cache.js                                                                *)
(***************************************************************************)
EmptyCache ==
  [trackId |-> Null, title |-> Null, artist |-> Null, album |-> Null,
   artwork |-> Null, position |-> 0, duration |-> 0, isPlaying |-> FALSE,
   timestamp |-> 0]

NullInfo == [null |-> TRUE]     \* a null trackInfo argument

getCachedTrackInfo(c) == c

cacheExpiredAtBoundary(c, t) == t - c.timestamp >= FiveMinutes
cacheExpired(c, t) == t - c.timestamp > FiveMinutes

positionOnlyKeepsNothing(c, trackInfo) ==
  [c EXCEPT !.position = trackInfo.position,
            !.isPlaying = trackInfo.isPlaying,
            !.title = OrStr(trackInfo.title, Null),
            !.artwork = OrStr(trackInfo.artwork, Null)]
positionOnly(c, trackInfo) ==
  [c EXCEPT !.position = OrNum(trackInfo.position, c.position),
            !.isPlaying = trackInfo.isPlaying]

fullReplaceKeepsOld(c, trackInfo, trackId, t) ==
  [trackId |-> OrStr(trackId, Null),
   title |-> OrStr(trackInfo.title, c.title),
   artist |-> OrStr(trackInfo.artist, c.artist),
   album |-> OrStr(trackInfo.album, c.album),
   artwork |-> OrStr(trackInfo.artwork, c.artwork),
   position |-> OrNum(trackInfo.position, 0),
   duration |-> OrNum(trackInfo.duration, 0),
   isPlaying |-> trackInfo.isPlaying,
   timestamp |-> t]
fullReplace(c, trackInfo, trackId, t) ==
  [trackId |-> OrStr(trackId, Null),
   title |-> OrStr(trackInfo.title, Null),
   artist |-> OrStr(trackInfo.artist, Null),
   album |-> OrStr(trackInfo.album, Null),
   artwork |-> OrStr(trackInfo.artwork, Null),
   position |-> OrNum(trackInfo.position, 0),
   duration |-> OrNum(trackInfo.duration, 0),
   isPlaying |-> trackInfo.isPlaying,
   timestamp |-> t]

\* updateTrackCache(trackInfo, trackId) at time t: the new cache and the
\* value returned.
updateTrackCache(c, trackInfo, trackId, t) ==
  IF trackInfo = NullInfo
  THEN [cache |-> c, ret |-> FALSE]
  ELSE IF Truthy(trackId) /\ trackId = c.trackId /\ ~cacheExpired(c, t)
       THEN [cache |-> positionOnly(c, trackInfo), ret |-> FALSE]
       ELSE [cache |-> fullReplace(c, trackInfo, trackId, t), ret |-> TRUE]

clearTrackCache == EmptyCache

isCacheValid(c, t) ==
  IF ~Truthy(c.trackId) THEN FALSE ELSE t - c.timestamp <= FiveMinutes

updatePositionInCacheAlways(c, position, isPlaying) ==
  [c EXCEPT !.position = position, !.isPlaying = isPlaying]
updatePositionInCache(c, position, isPlaying) ==
  IF Truthy(c.trackId)
  THEN [c EXCEPT !.position = position, !.isPlaying = isPlaying]
  ELSE c

(***************************************************************************)
(* The objects of music_control (part_003) that the cache receives.        *)
(***************************************************************************)
\* The trackInfo object built at part_003:195-204 from the lines the
\* expensive script returned for `meta` (a track, or NoTrack when the
\* player had stopped: part_003:173).
trackInfoObject(meta, artwork, position, duration, isPlaying, isRunning) ==
  [title |-> IF meta = NoTrack THEN NoTrackTitle ELSE TitleOf(meta),
   artist |-> IF meta = NoTrack THEN "" ELSE ArtistOf(meta),
   album |-> IF meta = NoTrack THEN "" ELSE AlbumOf(meta),
   artwork |-> artwork,
   position |-> position,
   duration |-> duration,
   isPlaying |-> isPlaying,
   isRunning |-> isRunning]

\* part_003:126-135
nothingPlaying(isPlaying, isRunning) ==
  [title |-> NoTrackTitle, artist |-> "", album |-> "",
   artwork |-> NoArtwork, position |-> 0, duration |-> 0,
   isPlaying |-> isPlaying, isRunning |-> isRunning]

(***************************************************************************)
(* consts.js and the host: devices, keys, component ids.                   *)
(***************************************************************************)
Devices == {"d1"}
Uids == {"k1", "k2"}

TRACKINFO == "com.jagk.apple_music.trackinfo"    \* `${PLUGIN_UUID}.trackinfo`
PLAYPAUSE == "com.jagk.apple_music.playpause"
NEXT == "com.jagk.apple_music.next"
PREVIOUS == "com.jagk.apple_music.previous"
CommandCids == {PLAYPAUSE, NEXT, PREVIOUS}

\* The component ids the manifest declares for the track info key and the
\* play/pause key (manifest.json:37, 69).
MANIFEST_TRACKINFO == "com.jagk.apple_music.trackInfo"
MANIFEST_PLAYPAUSE == "com.jagk.apple_music.playPause"

NoKey == [cid |-> "", title |-> ""]              \* keyData[uid] is undefined
keyObject(cid) == [cid |-> cid, title |-> ""]

\* The key lists a plugin.alive payload may carry: k1 is a track info key,
\* k2 a transport key, with the component ids plugin.js compares with or
\* with the ones of the manifest.
Payloads ==
  {<<[uid |-> "k1", cid |-> TRACKINFO]>>}
  \cup {<<[uid |-> "k1", cid |-> MANIFEST_TRACKINFO]>>,
        <<[uid |-> "k2", cid |-> MANIFEST_PLAYPAUSE]>>}
  \cup {<<[uid |-> "k2", cid |-> c]>> : c \in CommandCids}
  \cup {<<[uid |-> "k1", cid |-> TRACKINFO], [uid |-> "k2", cid |-> c]>> :
          c \in CommandCids}

\* The bounds of the update rate (the slider of the configuration page).
MinUpdateRate == 500
MaxUpdateRate == 60000

\* Interval names: key.uid and `${key.uid}_progress`.
Names == Uids \X {"", "_progress"}
mainName(uid) == <<uid, "">>
progressName(uid) == <<uid, "_progress">>

(***************************************************************************)
(* The intervals.  An interval is [name, callback, serial]: the name it    *)
(* was created under, the callback it runs and the device its callback     *)
(* captured.  An interval state is [table, unreferenced]: updateIntervals, *)
(* and the running intervals that updateIntervals no longer refers to      *)
(* (nothing can clear those).  Intervals that differ only in identity      *)
(* behave alike and are one element of `unreferenced`.                     *)
(***************************************************************************)
NoInterval ==
  [name |-> <<"", "">>, callback |-> "none", serial |-> "", delay |-> 0,
   wrapped |-> FALSE]

updateRate == 3000         \* the updateRate of plugin.getConfig(), milliseconds

\* The configuration once the user has saved the update rate; a number that
\* may be missing (undefined, NaN) is a set of at most one number.
DefaultConfig ==
  [updateRate |-> {updateRate}, minUpdateRate |-> {MinUpdateRate},
   maxUpdateRate |-> {MaxUpdateRate}]

\* The configuration the host holds before anything was saved: the manifest
\* declares none.
NoConfig == [updateRate |-> {}, minUpdateRate |-> {}, maxUpdateRate |-> {}]

\* The delay setInterval uses for the updateRate of the configuration
\* (plugin.js:218, 268, 306, 334): a delay that is no number counts as 1 ms.
intervalDelay(rate) == IF rate = {} THEN 1 ELSE CHOOSE x \in rate : TRUE
ProgressDelay == 1000      \* plugin.js:280 and 338

\* clearInterval(updateIntervals[name]); delete updateIntervals[name]
clearAndDelete(st, name) == [st EXCEPT !.table[name] = NoInterval]

\* plugin.js:228-237: if (updateIntervals[name]) { clearInterval; delete }
clearAndDeleteIf(st, name) ==
  IF st.table[name] # NoInterval THEN clearAndDelete(st, name) ELSE st

\* updateIntervals[name] = setInterval(callback, delay): the interval the
\* entry referred to keeps running.
assignInterval(st, name, callback, serial, delay) ==
  [table |-> [st.table EXCEPT ![name] =
                [name |-> name, callback |-> callback, serial |-> serial,
                 delay |-> delay, wrapped |-> FALSE]],
   unreferenced |-> st.unreferenced \cup ({st.table[name]} \ {NoInterval})]

\* interval-utils (package.json:55-62): the callback of the interval of id
\* is wrappedCallback, which catches what the callback throws.
wrapCallback(st, id) == [st EXCEPT !.table[id].wrapped = TRUE]

setManagedIntervalAlways(st, id, callback, serial, delay) ==
  wrapCallback(assignInterval(st, id, callback, serial, delay), id)
\* interval-utils (package.json:49-65)
setManagedInterval(st, id, callback, serial, delay) ==
  IF st.table[id] # NoInterval THEN st
  ELSE wrapCallback(assignInterval(st, id, callback, serial, delay), id)

\* interval-utils (package.json:72-77)
clearManagedInterval(st, id) ==
  IF st.table[id] # NoInterval THEN clearAndDelete(st, id) ELSE st

clearKeyIntervalsMainOnly(st, keyUid) == clearManagedInterval(st, mainName(keyUid))
\* interval-utils (package.json:84-87)
clearKeyIntervals(st, keyUid) ==
  clearManagedInterval(clearManagedInterval(st, mainName(keyUid)),
                       progressName(keyUid))

\* plugin.js:197-202: for (const uid in updateIntervals) clearManagedInterval(uid)
RECURSIVE clearEach(_, _)
clearEach(st, names) ==
  IF names = {} THEN st
  ELSE LET n == CHOOSE x \in names : TRUE IN
         clearEach(clearManagedInterval(st, n), names \ {n})
clearAllIntervals(st) == clearEach(st, {n \in Names : st.table[n] # NoInterval})

\* The intervals that are running.
running(table, unref) == ({table[n] : n \in Names} \ {NoInterval}) \cup unref

(***************************************************************************)
(* utils.js, plugin.js: drawing.                                           *)
(***************************************************************************)
ifDeviceConnectedAlways(serialNumber, devices) == TRUE
\* utils.js:49-56: whether fn is called
ifDeviceConnected(serialNumber, devices) == serialNumber \in devices

NoDraw == [serial |-> "", uid |-> "", called |-> FALSE, issued |-> FALSE]

\* plugin.js:60-77: the record of the call; plugin.draw is issued only
\* inside ifDeviceConnected.
safeDraw(serialNumber, uid, devices) ==
  [serial |-> serialNumber, uid |-> uid, called |-> TRUE,
   issued |-> ifDeviceConnected(serialNumber, devices)]

\* What plugin.draw may do when it is called.
DrawOutcomes == {"ok", "throws", "rejects"}

drawErrorUnguarded(issued, outcome) ==
  CASE issued /\ outcome = "throws" -> "thrown"
    [] issued /\ outcome = "rejects" -> "unhandled"
    [] OTHER -> "none"

\* plugin.js:63-75: what becomes of a failure of plugin.draw.  The try block
\* catches a synchronous exception and logs it; the promise carries
\* .catch(() => {}), which swallows a rejection.  "thrown" would be an
\* exception that leaves safeDraw.
drawError(issued, outcome) ==
  CASE issued /\ outcome = "throws" -> "logged"
    [] issued /\ outcome = "rejects" -> "swallowed"
    [] OTHER -> "none"

\* The state after safeDraw(serialNumber, key, "draw") in the run S.
drawn(S, serialNumber, uid) ==
  LET d == safeDraw(serialNumber, uid, S.devices) IN
    [S EXCEPT !.lastDraw = d, !.lastError = drawError(d.issued, S.display)]

\* An exception that leaves safeDraw ends the async function that called it.
escaped(S) == S.lastError = "thrown"

(***************************************************************************)
(* The player (environment) and the scripts run against it.                *)
(***************************************************************************)
\* The track matters only while the player plays.
PlayerStates ==
  {[state |-> "off", track |-> NoTrack], [state |-> "paused", track |-> NoTrack]}
  \cup [state : {"playing"}, track : Tracks]
NoFile == "<absent>"

\* part_003:11-26: the value isAppleMusicRunning returns; ok is whether
\* osascript succeeded.
isAppleMusicRunning(pl, ok) == ok /\ pl.state # "off"

defaultResponse ==
  [trackId |-> Null, position |-> 0, duration |-> 0, isPlaying |-> FALSE,
   isRunning |-> FALSE]

\* part_003:44-70: the identity probe once the player is known to run.
identityProbe(pl, ok, position) ==
  IF ~ok THEN defaultResponse
  ELSE IF pl.state = "playing"
       THEN [trackId |-> pl.track, position |-> position,
             duration |-> DurationOf(pl.track), isPlaying |-> TRUE,
             isRunning |-> TRUE]
       ELSE [trackId |-> NoTrack, position |-> 0, duration |-> 0,
             isPlaying |-> FALSE, isRunning |-> TRUE]

\* part_003:125
isNothingPlaying(probe) ==
  probe.trackId = NoTrack \/ ~probe.isPlaying \/ ~probe.isRunning

\* part_003:140-141
cacheHit(c, trackId, t) ==
  trackId = getCachedTrackInfo(c).trackId /\ isCacheValid(c, t)

hitSnapshotCachedPosition(cachedInfo, probe) ==
  [cachedInfo EXCEPT !.duration = probe.duration,
                     !.isPlaying = probe.isPlaying] @@
  [isRunning |-> probe.isRunning]
\* part_003:143-149: { ...cachedInfo, position, duration, isPlaying, isRunning }
hitSnapshot(cachedInfo, probe) ==
  [cachedInfo EXCEPT !.position = probe.position,
                     !.duration = probe.duration,
                     !.isPlaying = probe.isPlaying] @@
  [isRunning |-> probe.isRunning]

Undefined == "<undefined>"       \* a property the object does not have
Yes == "true"                    \* the boolean true in a key's style or data
No == "false"
NoProgress == <<>>               \* style.progress is undefined
MusicIcon == "mdi mdi-music"
MusicOffIcon == "mdi mdi-music-off"
DefaultProgressColor == "#1ED760"

\* trackInfo.artwork && trackInfo.artwork.startsWith("data:image")
isDataImage(artwork) == artwork \in {ArtworkOf(m) : m \in Tracks}

\* plugin.js:118: position / duration as the fraction <<numerator,
\* denominator>>, 0 being <<0, 1>>.
progressOf(position, duration) ==
  IF duration > 0 THEN <<position, duration>> ELSE <<0, 1>>

\* plugin.js:95-142: the style updateTrackInfo gives the key, from the
\* style it had ({ ...key.style }), key.data and the track info.
renderStyle(style, data, trackInfo) ==
  LET off == [style EXCEPT !.showIcon = Yes, !.showTitle = Yes,
                           !.icon = MusicOffIcon, !.showProgress = No]
  IN IF trackInfo = NullInfo THEN off
     ELSE IF trackInfo.title = NoTrackTitle THEN off
     ELSE LET s1 == [style EXCEPT !.showTitle = Yes]
              s2 == IF data.showProgress # No
                    THEN [s1 EXCEPT
                            !.progress = progressOf(trackInfo.position,
                                                    trackInfo.duration),
                            !.showProgress = Yes,
                            !.progressBarColor =
                               IF data.progressBarColor = Undefined
                               THEN DefaultProgressColor
                               ELSE data.progressBarColor]
                    ELSE s1
          IN IF isDataImage(trackInfo.artwork)
             THEN [s2 EXCEPT !.showIcon = IF data.showArtwork # No THEN Yes ELSE No,
                             !.icon = trackInfo.artwork]
             ELSE [s2 EXCEPT !.showIcon = Yes, !.icon = MusicIcon]

renderTitleOneMessage(trackInfo) ==
  IF trackInfo = NullInfo THEN "No track playing"
  ELSE IF trackInfo.title # NoTrackTitle
       THEN trackInfo.title \o "\n" \o trackInfo.artist
       ELSE "No track playing"
\* plugin.js:96-139: the title updateTrackInfo gives the key.
renderTitle(trackInfo) ==
  IF trackInfo = NullInfo THEN "No track info"
  ELSE IF trackInfo.title # NoTrackTitle
       THEN trackInfo.title \o "\n" \o trackInfo.artist
       ELSE "No track playing"

(***************************************************************************)
(* Tasks: a handler or callback suspended at an await on I/O.  pc names    *)
(* the await: config1/config2 (plugin.getConfig), command, running,        *)
(* identity, fetch, posRunning, position (osascript), readFile, unlink.    *)
(***************************************************************************)
newTask(kind, pc, serial, uid, cid) ==
  [kind |-> kind, pc |-> pc, serial |-> serial, uid |-> uid, cid |-> cid,
   keys |-> <<>>, rest |-> <<>>, afterCmd |-> FALSE, id |-> Null, pos |-> 0,
   wasEmpty |-> FALSE, meta |-> NoTrack, art |-> NoArtwork]

Finished == [pc |-> "finished"]

NoQuery ==
  [via |-> "none", probe |-> defaultResponse, ret |-> NullInfo,
   afterCmd |-> FALSE, wasEmpty |-> FALSE]

\* What one uninterrupted run works on: the program's state, and in `task`
\* what becomes of the running task.
stateOf(t) ==
  [cache |-> cache, now |-> now, devices |-> connectedDevices,
   keyData |-> keyData,
   iv |-> [table |-> updateIntervals, unreferenced |-> unreferenced],
   player |-> player, artworkFile |-> artworkFile, lastDraw |-> NoDraw,
   lastQuery |-> NoQuery, lastError |-> "none", config |-> config,
   display |-> display,
   task |-> t]

suspend(S, t) == [S EXCEPT !.task = t]
finish(S) == [S EXCEPT !.task = Finished]

probeOf(t) ==
  [trackId |-> t.id, position |-> t.pos, duration |-> DurationOf(t.id),
   isPlaying |-> TRUE, isRunning |-> TRUE]

\* plugin.js:222-283: the loop of plugin.alive over payload.keys, up to the
\* await of the next track info key or to the end of the list.
RECURSIVE aliveLoop(_, _, _)
aliveLoop(S, t, keys) ==
  IF keys = <<>> THEN finish(S)
  ELSE LET key == Head(keys)
           S1 == [S EXCEPT
                    !.keyData = [S.keyData EXCEPT ![key.uid] = keyObject(key.cid)],
                    !.iv = clearAndDeleteIf(clearAndDeleteIf(S.iv, mainName(key.uid)),
                                            progressName(key.uid))]
       IN IF key.cid = TRACKINFO
          THEN suspend(S1, [t EXCEPT !.pc = "config2", !.uid = key.uid,
                                     !.cid = key.cid, !.rest = Tail(keys)])
          ELSE aliveLoop(S1, t, Tail(keys))

\* What follows `await updateTrackInfo(...)` in the caller.
continueAfterUpdate(S, t) ==
  CASE t.kind = "alive" ->
         \* plugin.js:258-281
         aliveLoop(
           [S EXCEPT !.iv =
              assignInterval(
                setManagedInterval(S.iv, mainName(t.uid), "full", t.serial,
                                   intervalDelay(S.config.updateRate)),
                progressName(t.uid), "progress", t.serial, ProgressDelay)],
           t, t.rest)
    [] t.kind = "data" /\ t.cid = TRACKINFO ->
         \* plugin.js:326-368; key.data.enableSmoothProgress is not false
         finish(
           [S EXCEPT !.iv =
              assignInterval(
                assignInterval(S.iv, mainName(t.uid), "fullData", t.serial,
                               intervalDelay(S.config.updateRate)),
                progressName(t.uid), "progressData", t.serial, ProgressDelay)])
    [] OTHER -> finish(S)

finishUpdateTrackInfoKeepsTitle(S, t, trackInfo) ==
  LET S1 == drawn([S EXCEPT !.keyData =
                      [S.keyData EXCEPT ![t.uid].title =
                         IF trackInfo = NullInfo THEN @ ELSE renderTitle(trackInfo)]],
                  t.serial, t.uid)
  IN IF escaped(S1) THEN finish(S1) ELSE continueAfterUpdate(S1, t)

\* plugin.js:94-147: updateTrackInfo once the query has returned trackInfo.
finishUpdateTrackInfo(S, t, trackInfo) ==
  LET S1 == drawn([S EXCEPT !.keyData =
                      [S.keyData EXCEPT ![t.uid].title = renderTitle(trackInfo)]],
                  t.serial, t.uid)
  IN IF escaped(S1) THEN finish(S1) ELSE continueAfterUpdate(S1, t)

\* plugin.js:85-92: updateTrackInfo up to its await of the query.
startUpdateTrackInfo(S, t) ==
  IF t.serial \notin S.devices
  THEN continueAfterUpdate(S, t)
  ELSE suspend(S, [t EXCEPT !.pc = "running"])

\* getTrackInfoWithAppleScript returns ret; via names the return statement.
returnQuery(S, t, via, probe, ret) ==
  finishUpdateTrackInfo(
    [S EXCEPT !.lastQuery =
       [via |-> via, probe |-> probe, ret |-> ret, afterCmd |-> t.afterCmd,
        wasEmpty |-> t.wasEmpty]],
    t, ret)

resumeRunningAlwaysProbes(S, t, ok) == suspend(S, [t EXCEPT !.pc = "identity"])

resumeRunningNullOnFailure(S, t, ok) ==
  IF ~ok THEN returnQuery(S, t, "error", defaultResponse, NullInfo)
  ELSE IF S.player.state # "off" THEN suspend(S, [t EXCEPT !.pc = "identity"])
  ELSE returnQuery(S, t, "nothing", defaultResponse,
                   nothingPlaying(defaultResponse.isPlaying,
                                  defaultResponse.isRunning))
\* part_003:40-43 and 122-136
resumeRunning(S, t, ok) ==
  IF isAppleMusicRunning(S.player, ok)
  THEN suspend(S, [t EXCEPT !.pc = "identity"])
  ELSE returnQuery(S, t, "nothing", defaultResponse,
                   nothingPlaying(defaultResponse.isPlaying,
                                  defaultResponse.isRunning))

resumeIdentityHitRefreshes(S, t, ok, position) ==
  LET probe == identityProbe(S.player, ok, position) IN
    IF isNothingPlaying(probe)
    THEN returnQuery(S, t, "nothing", probe,
                     nothingPlaying(probe.isPlaying, probe.isRunning))
    ELSE IF cacheHit(S.cache, probe.trackId, S.now)
         THEN returnQuery([S EXCEPT !.cache.timestamp = S.now,
                                    !.cache.position = probe.position],
                          t, "hit", probe,
                          hitSnapshot(getCachedTrackInfo(S.cache), probe))
         ELSE suspend(S, [t EXCEPT !.pc = "fetch", !.id = probe.trackId,
                                   !.pos = probe.position,
                                   !.wasEmpty = (S.cache.trackId = Null)])

\* part_003:59-70 and 122-177
resumeIdentity(S, t, ok, position) ==
  LET probe == identityProbe(S.player, ok, position) IN
    IF isNothingPlaying(probe)
    THEN returnQuery(S, t, "nothing", probe,
                     nothingPlaying(probe.isPlaying, probe.isRunning))
    ELSE IF cacheHit(S.cache, probe.trackId, S.now)
         THEN returnQuery(S, t, "hit", probe,
                          hitSnapshot(getCachedTrackInfo(S.cache), probe))
         ELSE suspend(S, [t EXCEPT !.pc = "fetch", !.id = probe.trackId,
                                   !.pos = probe.position,
                                   !.wasEmpty = (S.cache.trackId = Null)])

\* part_003:195-209
completeFetch(S, t, artwork) ==
  LET trackInfo == trackInfoObject(t.meta, artwork, t.pos, DurationOf(t.id),
                                   TRUE, TRUE)
  IN returnQuery(
       [S EXCEPT !.cache = updateTrackCache(S.cache, trackInfo, t.id, S.now).cache],
       t, "fetched", probeOf(t), trackInfo)

\* part_003:177-193 and 210-213; saved is whether the script could write
\* the artwork to ARTWORK_PATH.
resumeFetch(S, t, ok, saved) ==
  IF ~ok THEN returnQuery(S, t, "error", probeOf(t), NullInfo)
  ELSE LET meta == IF S.player.state = "playing" THEN S.player.track ELSE NoTrack
           t1 == [t EXCEPT !.meta = meta]
       IN IF meta # NoTrack /\ HasArtwork(meta) /\ saved
          THEN suspend([S EXCEPT !.artworkFile = meta],
                       [t1 EXCEPT !.pc = "readFile"])
          ELSE completeFetch(S, t1, NoArtwork)

\* part_003:181-190
resumeReadFile(S, t, ok) ==
  IF ok /\ S.artworkFile # NoFile
  THEN suspend(S, [t EXCEPT !.pc = "unlink", !.art = ArtworkOf(S.artworkFile)])
  ELSE completeFetch(S, t, ArtworkReadError)

\* part_003:184-186
resumeUnlink(S, t) ==
  completeFetch([S EXCEPT !.artworkFile = NoFile], t, t.art)

\* part_003:80-83, plugin.js:162-167
resumePosRunning(S, t, ok) ==
  IF isAppleMusicRunning(S.player, ok)
  THEN suspend(S, [t EXCEPT !.pc = "position"])
  ELSE finish(S)

\* part_003:79: the defaultResponse of getPlaybackPosition
defaultPosition ==
  [position |-> 0, duration |-> 0, isPlaying |-> FALSE, isRunning |-> FALSE]

\* part_003:85-112: what getPlaybackPosition returns once the player is
\* known to run; ok is whether osascript succeeded.
positionReply(pl, ok, position) ==
  IF ~ok THEN defaultPosition
  ELSE IF pl.state = "playing"
       THEN [position |-> position, duration |-> DurationOf(pl.track),
             isPlaying |-> TRUE, isRunning |-> TRUE]
       ELSE [position |-> 0, duration |-> 0, isPlaying |-> FALSE,
             isRunning |-> TRUE]

afterPositionAlways(S, ok, position) ==
  LET r == positionReply(S.player, ok, position) IN
    [S EXCEPT !.cache = updatePositionInCache(S.cache, r.position, r.isPlaying)]
\* part_003:98-101: the cache after the script of getPlaybackPosition
afterPosition(S, ok, position) ==
  IF ~ok THEN S
  ELSE LET r == positionReply(S.player, ok, position) IN
         [S EXCEPT !.cache = updatePositionInCache(S.cache, r.position, r.isPlaying)]

\* part_003:98-112, then plugin.js:164-190 (the timer of plugin.alive) or
\* plugin.js:342-362 (the timer of plugin.data).
resumePosition(S, t, ok, position) ==
  LET r == positionReply(S.player, ok, position)
      S1 == afterPosition(S, ok, position)
  IN IF ~r.isPlaying THEN finish(S1)
     ELSE IF t.kind = "progress" /\ ~Truthy(getCachedTrackInfo(S1.cache).trackId)
          THEN finish(S1)
          ELSE finish(drawn(S1, t.serial, t.uid))

\* plugin.js:216-220
resumeAliveConfig(S, t) ==
  aliveLoop([S EXCEPT !.devices = S.devices \cup {t.serial}], t, t.rest)

\* plugin.js:242-257
resumeAliveKeyConfig(S, t) ==
  LET S1 == drawn([S EXCEPT !.keyData =
                      [S.keyData EXCEPT ![t.uid].title = "Nothing playing"]],
                  t.serial, t.uid)
  IN IF escaped(S1) THEN finish(S1) ELSE startUpdateTrackInfo(S1, t)

resumeDataConfigAlways(S, t) == suspend(S, [t EXCEPT !.pc = "config2"])

\* plugin.js:306-318
resumeDataConfig(S, t) ==
  IF t.serial \notin S.devices THEN finish(S)
  ELSE suspend(S, [t EXCEPT !.pc = "config2"])

\* plugin.js:318-384, up to the await of the transport command
resumeDataKeyConfig(S, t) ==
  IF t.cid = TRACKINFO \/ t.cid \in CommandCids
  THEN suspend(S, [t EXCEPT !.pc = "command"])
  ELSE finish(S)

\* The command a key sends: plugin.js:322, 375-384.
commandOf(cid) ==
  IF cid = NEXT THEN "next track"
  ELSE IF cid = PREVIOUS THEN "previous track" ELSE "playpause"

\* What the command does to the player.
playerAfter(pl, command, track) ==
  IF command = "playpause"
  THEN IF pl.state = "playing" THEN [state |-> "paused", track |-> NoTrack]
       ELSE [state |-> "playing", track |-> track]
  ELSE IF command = "set player position" THEN pl
  ELSE IF pl.state = "playing" THEN [state |-> "playing", track |-> track]
       ELSE [state |-> "paused", track |-> NoTrack]

\* utils.js:33-40: what safeExecute returns, fn having thrown or returned
\* value.
safeExecute(threw, value, defaultValue) == IF threw THEN defaultValue ELSE value

\* utils.js:64-74: what executeAppleMusicCommand returns.
commandReturn(ok) == safeExecute(~ok, TRUE, FALSE)

executeAppleMusicCommandAlwaysClears(S, ok, command, track) ==
  IF ok
  THEN [S EXCEPT !.player = playerAfter(S.player, command, track),
                 !.cache = clearTrackCache]
  ELSE [S EXCEPT !.cache = clearTrackCache]
\* utils.js:33-40, 64-74: executeAppleMusicCommand; ok is whether osascript
\* succeeded.
executeAppleMusicCommand(S, ok, command, track) ==
  IF ok
  THEN [S EXCEPT !.player = playerAfter(S.player, command, track),
                 !.cache = clearTrackCache]
  ELSE S

\* plugin.js:396-403: the first track info key of keyData, "" when none.
trackInfoKeyOf(kd) ==
  IF \E u \in Uids : kd[u].cid = TRACKINFO
  THEN CHOOSE u \in Uids : kd[u].cid = TRACKINFO
  ELSE ""

\* plugin.js:322-324 and 375-387: the command has returned.
resumeCommand(S, t, ok, track) ==
  LET S1 == executeAppleMusicCommand(S, ok, commandOf(t.cid), track)
      t1 == [t EXCEPT !.afterCmd = ok]
  IN IF t.cid = TRACKINFO THEN startUpdateTrackInfo(S1, t1)
     ELSE LET u == trackInfoKeyOf(S1.keyData) IN
            IF u = "" THEN finish(S1)
            ELSE startUpdateTrackInfo(S1, [t1 EXCEPT !.uid = u])

\* A timer fires: its callback up to its first await.
fire(S, tm) ==
  LET uid == tm.name[1] IN
    CASE tm.callback \in {"full", "fullData"} ->
           \* plugin.js:260-266, 326-333
           IF S.keyData[uid] # NoKey
           THEN startUpdateTrackInfo(S, newTask("timer", "running", tm.serial, uid, ""))
           ELSE finish([S EXCEPT !.iv = clearManagedInterval(S.iv, mainName(uid))])
      [] tm.callback = "progress" ->
           \* plugin.js:272-280, 156-162
           IF S.keyData[uid] # NoKey
           THEN IF tm.serial \notin S.devices THEN finish(S)
                ELSE suspend(S, newTask("progress", "posRunning", tm.serial, uid, ""))
           ELSE finish([S EXCEPT !.iv = clearAndDelete(S.iv, progressName(uid))])
      [] OTHER ->
           \* plugin.js:339-366
           IF S.keyData[uid] # NoKey
           THEN suspend(S, newTask("progressData", "posRunning", tm.serial, uid, ""))
           ELSE finish([S EXCEPT !.iv = clearAndDelete(S.iv, progressName(uid))])

\* What becomes of an exception the callback of tm throws
\* (package.json:56-62; plugin.js:272, 326 and 339 pass the callback to
\* setInterval as it is).
fireThrows(tm) == IF tm.wrapped THEN "caught" ELSE "unhandled"

\* plugin.js:409-413 and 419-423
stopHandler(S) ==
  [S EXCEPT !.iv = clearAllIntervals(S.iv), !.devices = {}]

(***************************************************************************)
(* Initial state.                                                          *)
(***************************************************************************)
NoCall ==
  [op |-> "none", trackInfo |-> NullInfo, trackId |-> Null, position |-> 0,
   isPlaying |-> FALSE, ret |-> FALSE, preId |-> Null, preKind |-> "empty",
   result |-> defaultPosition,
   args |-> [name |-> <<"", "">>, callback |-> "none", delay |-> 0,
             before |-> NoInterval],
   at |-> 0, seq |-> 0]

Init ==
  /\ cache = EmptyCache
  /\ now = StartNow
  /\ call = NoCall
  /\ connectedDevices = {}
  /\ keyData = [u \in Uids |-> NoKey]
  /\ updateIntervals = [n \in Names |-> NoInterval]
  /\ unreferenced = {}
  /\ tasks = {}
  /\ player \in PlayerStates
  /\ artworkFile = NoFile
  /\ lastDraw = NoDraw
  /\ lastQuery = NoQuery
  /\ lastError = "none"
  /\ config = DefaultConfig
  /\ display = "ok"
  /\ events = 0

(***************************************************************************)
(* CacheSpec: the functions of cache.js called directly, with every        *)
(* argument of a small set, at every time of the clock.                    *)
(***************************************************************************)
TrackIdInputs == Tracks \cup {Null, ""}

TrackInfoInputs ==
  {trackInfoObject(m, IF m # NoTrack /\ HasArtwork(m) THEN ArtworkOf(m)
                      ELSE NoArtwork,
                   p, IF m = NoTrack THEN 0 ELSE DurationOf(m), playing, TRUE) :
     m \in Tracks \cup {NoTrack}, p \in Positions, playing \in BOOLEAN}

kindOf(c, t) ==
  IF ~Truthy(c.trackId) THEN "empty"
  ELSE IF t - c.timestamp <= FiveMinutes THEN "valid" ELSE "expired"

\* Time passes between two steps of the program: one or more clock steps.
Tick ==
  /\ events < MaxEvents
  /\ \E steps \in 1..MaxTicks :
       /\ now + steps * ClockStep <= StartNow + MaxTicks * ClockStep
       /\ now' = now + steps * ClockStep
  /\ events' = events + 1
  /\ lastDraw' = NoDraw
  /\ lastQuery' = NoQuery
  /\ lastError' = "none"
  /\ config' = config
  /\ display' = display
  /\ UNCHANGED <<cache, call, connectedDevices, keyData, updateIntervals,
                 unreferenced, tasks, player, artworkFile>>

CallUpdateTrackCache ==
  \E trackInfo \in TrackInfoInputs \cup {NullInfo}, trackId \in TrackIdInputs :
    LET r == updateTrackCache(cache, trackInfo, trackId, now) IN
      /\ cache' = r.cache
      /\ call' = [NoCall EXCEPT !.op = "updateTrackCache",
                                !.trackInfo = trackInfo, !.trackId = trackId,
                                !.ret = r.ret, !.preId = cache.trackId,
                                !.preKind = kindOf(cache, now), !.at = now,
                                !.seq = 1 - call.seq]
      /\ UNCHANGED <<now, pluginVars>>

CallClearTrackCache ==
  /\ cache' = clearTrackCache
  /\ call' = [NoCall EXCEPT !.op = "clearTrackCache",
                            !.preId = cache.trackId,
                            !.preKind = kindOf(cache, now), !.at = now,
                            !.seq = 1 - call.seq]
  /\ UNCHANGED <<now, pluginVars>>

CallIsCacheValid ==
  /\ call' = [NoCall EXCEPT !.op = "isCacheValid",
                            !.ret = isCacheValid(cache, now),
                            !.preId = cache.trackId,
                            !.preKind = kindOf(cache, now), !.at = now,
                            !.seq = 1 - call.seq]
  /\ UNCHANGED <<cache, now, pluginVars>>

CallUpdatePositionInCache ==
  \E position \in Positions, isPlaying \in BOOLEAN :
    /\ cache' = updatePositionInCache(cache, position, isPlaying)
    /\ call' = [NoCall EXCEPT !.op = "updatePositionInCache",
                              !.position = position, !.isPlaying = isPlaying,
                              !.preId = cache.trackId,
                              !.preKind = kindOf(cache, now), !.at = now,
                              !.seq = 1 - call.seq]
    /\ UNCHANGED <<now, pluginVars>>

CacheNext ==
  \/ Tick
  \/ CallUpdateTrackCache
  \/ CallClearTrackCache
  \/ CallIsCacheValid
  \/ CallUpdatePositionInCache

CacheInit == Init /\ player.state = "off"

CacheSpec == CacheInit /\ [][CacheNext]_vars

(***************************************************************************)
(* Spec: the plugin.  One action per event, per timer firing and per       *)
(* resumption of a suspended task.                                         *)
(***************************************************************************)
\* The state after the run S; old is the task that ran (Finished for an
\* event or a timer firing, which start a new one).
ApplyRun(S, old) ==
  LET others == tasks \ {old} IN
    /\ S.task # Finished => S.task \notin others /\ Cardinality(others) < MaxTasks
    /\ tasks' = IF S.task = Finished THEN others ELSE others \cup {S.task}
    /\ cache' = S.cache
    /\ connectedDevices' = S.devices
    /\ keyData' = S.keyData
    /\ updateIntervals' = S.iv.table
    /\ unreferenced' = S.iv.unreferenced
    /\ player' = S.player
    /\ artworkFile' = S.artworkFile
    /\ lastDraw' = S.lastDraw
    /\ lastQuery' = S.lastQuery
    /\ lastError' = S.lastError
    /\ config' = S.config
    /\ display' = S.display
    /\ old = Finished => events < MaxEvents
    /\ events' = IF old = Finished THEN events + 1 ELSE events

Apply(S, old) == ApplyRun(S, old) /\ UNCHANGED <<now, call>>

\* The same for a function called directly, c being the record of the call.
ApplyCall(S, old, c) == ApplyRun(S, old) /\ call' = c /\ UNCHANGED now

\* plugin.on("plugin.alive"), to its first await (plugin.js:216-218)
PluginAlive ==
  \E serial \in Devices, keys \in Payloads :
    Apply(suspend(stateOf(Finished),
                  [newTask("alive", "config1", serial, "", "")
                     EXCEPT !.keys = keys, !.rest = keys]),
          Finished)

\* plugin.on("plugin.data"), to its first await (plugin.js:301-306); the key
\* is looked up before the await.
PluginDataOf(serial, uid) ==
  /\ keyData[uid] # NoKey
  /\ Apply(suspend(stateOf(Finished),
                   newTask("data", "config1", serial, uid, keyData[uid].cid)),
           Finished)

PluginData == \E serial \in Devices, uid \in Uids : PluginDataOf(serial, uid)

\* plugin.on("plugin.data") for a key that keyData does not hold: the handler
\* awaits the configuration and returns (plugin.js:309-312).
PluginDataUnknownKey ==
  \E serial \in Devices, uid \in Uids :
    /\ keyData[uid] = NoKey
    /\ Apply(finish(stateOf(Finished)), Finished)

PluginStop == Apply(stopHandler(stateOf(Finished)), Finished)

PluginUnload == Apply(stopHandler(stateOf(Finished)), Finished)

TimerFire ==
  \E tm \in running(updateIntervals, unreferenced) : Apply(fire(stateOf(Finished), tm), Finished)

\* A timer fires and its callback throws: wrappedCallback catches and logs
\* the exception; the promise of a callback given to setInterval as it is
\* rejects with nothing to handle the rejection.
TimerFireThrowsOf(tm) ==
  Apply(finish([stateOf(Finished) EXCEPT !.lastError = fireThrows(tm)]), Finished)

TimerFireThrows ==
  \E tm \in running(updateIntervals, unreferenced) : TimerFireThrowsOf(tm)

ResumeAliveConfig ==
  \E t \in tasks :
    /\ t.kind = "alive" /\ t.pc = "config1"
    /\ Apply(resumeAliveConfig(stateOf(t), t), t)

ResumeAliveKeyConfig ==
  \E t \in tasks :
    /\ t.kind = "alive" /\ t.pc = "config2"
    /\ Apply(resumeAliveKeyConfig(stateOf(t), t), t)

ResumeDataConfigOf(t) ==
  /\ t.kind = "data" /\ t.pc = "config1"
  /\ Apply(resumeDataConfig(stateOf(t), t), t)

ResumeDataConfig == \E t \in tasks : ResumeDataConfigOf(t)

ResumeDataKeyConfig ==
  \E t \in tasks :
    /\ t.kind = "data" /\ t.pc = "config2"
    /\ Apply(resumeDataKeyConfig(stateOf(t), t), t)

ResumeCommand ==
  \E t \in tasks, ok \in BOOLEAN, track \in Tracks :
    /\ t.pc = "command"
    /\ Apply(resumeCommand(stateOf(t), t, ok, track), t)

ResumeRunningOf(t, ok) ==
  /\ t.pc = "running"
  /\ Apply(resumeRunning(stateOf(t), t, ok), t)

ResumeRunning == \E t \in tasks, ok \in BOOLEAN : ResumeRunningOf(t, ok)

ResumeIdentity ==
  \E t \in tasks, ok \in BOOLEAN, position \in Positions :
    /\ t.pc = "identity"
    /\ Apply(resumeIdentity(stateOf(t), t, ok, position), t)

ResumeFetch ==
  \E t \in tasks, ok \in BOOLEAN, saved \in BOOLEAN :
    /\ t.pc = "fetch"
    /\ Apply(resumeFetch(stateOf(t), t, ok, saved), t)

ResumeReadFile ==
  \E t \in tasks, ok \in BOOLEAN :
    /\ t.pc = "readFile"
    /\ Apply(resumeReadFile(stateOf(t), t, ok), t)

ResumeUnlink ==
  \E t \in tasks :
    /\ t.pc = "unlink"
    /\ Apply(resumeUnlink(stateOf(t), t), t)

ResumePosRunning ==
  \E t \in tasks, ok \in BOOLEAN :
    /\ t.pc = "posRunning"
    /\ Apply(resumePosRunning(stateOf(t), t, ok), t)

ResumePosition ==
  \E t \in tasks, ok \in BOOLEAN, position \in Positions :
    /\ t.pc = "position"
    /\ Apply(resumePosition(stateOf(t), t, ok, position), t)

\* The user, or the end of a track, changes what the player does.
PlayerChange ==
  /\ events < MaxEvents
  /\ player' \in PlayerStates \ {player}
  /\ events' = events + 1
  /\ lastDraw' = NoDraw
  /\ lastQuery' = NoQuery
  /\ lastError' = "none"
  /\ config' = config
  /\ display' = display
  /\ UNCHANGED <<cache, now, call, connectedDevices, keyData, updateIntervals,
                 unreferenced, tasks, artworkFile>>

Next ==
  \/ PluginAlive
  \/ PluginData
  \/ PluginDataUnknownKey
  \/ PluginStop
  \/ PluginUnload
  \/ TimerFire
  \/ TimerFireThrows
  \/ ResumeAliveConfig
  \/ ResumeAliveKeyConfig
  \/ ResumeDataConfig
  \/ ResumeDataKeyConfig
  \/ ResumeCommand
  \/ ResumeRunning
  \/ ResumeIdentity
  \/ ResumeFetch
  \/ ResumeReadFile
  \/ ResumeUnlink
  \/ ResumePosRunning
  \/ ResumePosition
  \/ PlayerChange
  \/ Tick

Spec == Init /\ [][Next]_vars

(***************************************************************************)
(* Properties of the intervals and of drawing (Spec).                      *)
(***************************************************************************)
\* C1: at every moment, every interval that runs is the one updateIntervals
\* records under its name, so at most one interval runs under a name: no
\* interval runs that the table no longer refers to.
C1_OneRunningIntervalPerName ==
  /\ unreferenced = {}
  /\ \A i \in running(updateIntervals, unreferenced) : updateIntervals[i.name] = i

\* C2: when the plugin.stop or plugin.unload handler has returned, no
\* interval is running and connectedDevices is empty.
C2_StopLeavesNothingRunning ==
  [][(PluginStop \/ PluginUnload) =>
       /\ running(updateIntervals', unreferenced') = {}
       /\ connectedDevices' = {}]_vars

\* C3: a step issues plugin.draw(serial, ...) only while serial is in
\* connectedDevices; a safeDraw for another serial issues nothing.
C3_DrawOnlyToConnected ==
  /\ lastDraw.issued => lastDraw.serial \in connectedDevices
  /\ lastDraw.called /\ lastDraw.serial \notin connectedDevices => ~lastDraw.issued

\* A task that was suspended on the player query returns from it after
\* plugin.stop emptied the set: safeDraw is called and issues nothing.
C3_Witness ==
  /\ lastQuery.via # "none"
  /\ lastDraw.called
  /\ ~lastDraw.issued
  /\ connectedDevices = {}

\* C4: the query a handler makes after its transport command succeeded,
\* when it observes a playing track, is not answered from the cache.
C4_FetchAfterCommand ==
  lastQuery.afterCmd => lastQuery.via # "hit"

\* C5: a query whose probe reports a playing track with the cached id while
\* the cache is valid does not start the expensive fetch, and what it
\* returns has the cached title, artist, album and artwork and the probe's
\* position, duration, isPlaying and isRunning.
C5_CacheHit ==
  [][/\ \A t \in tasks' \ tasks :
          t.pc = "fetch" => ~(t.id = cache.trackId /\ isCacheValid(cache, now))
     /\ \A t \in tasks :
          (/\ t.pc = "identity"
           /\ t \notin tasks'
           /\ lastQuery'.probe.isPlaying
           /\ lastQuery'.probe.trackId = cache.trackId
           /\ isCacheValid(cache, now))
          => /\ lastQuery'.via = "hit"
             /\ cache' = cache
             /\ lastQuery'.ret.title = cache.title
             /\ lastQuery'.ret.artist = cache.artist
             /\ lastQuery'.ret.album = cache.album
             /\ lastQuery'.ret.artwork = cache.artwork
             /\ lastQuery'.ret.position = lastQuery'.probe.position
             /\ lastQuery'.ret.duration = lastQuery'.probe.duration
             /\ lastQuery'.ret.isPlaying = lastQuery'.probe.isPlaying
             /\ lastQuery'.ret.isRunning = lastQuery'.probe.isRunning]_vars

\* A query answered from the cache at a position the cache does not hold.
C5_Witness ==
  /\ lastQuery.via = "hit"
  /\ lastQuery.ret.position # cache.position
  /\ lastQuery.ret.title = cache.title

\* C6: a query that found the cache empty and a playing track, and whose
\* expensive fetch succeeded, leaves the cache valid under the probed id
\* with the title, artist, album and artwork it fetched (an empty string
\* being stored as null).
C6_FetchFillsCache ==
  lastQuery.via = "fetched" /\ lastQuery.wasEmpty =>
    /\ cache.trackId = lastQuery.probe.trackId
    /\ isCacheValid(cache, now)
    /\ cache.title = OrStr(lastQuery.ret.title, Null)
    /\ cache.artist = OrStr(lastQuery.ret.artist, Null)
    /\ cache.album = OrStr(lastQuery.ret.album, Null)
    /\ cache.artwork = OrStr(lastQuery.ret.artwork, Null)

(***************************************************************************)
(* Properties of cache.js (CacheSpec).                                     *)
(***************************************************************************)
\* The step is a call of updateTrackCache with a snapshot.
UpdateCalled ==
  /\ call' # call
  /\ call'.op = "updateTrackCache"
  /\ call'.trackInfo # NullInfo

\* C7: a call of updateTrackCache with the cached, non-null trackId, no more
\* than 5 minutes after the entry was written, leaves title, artist, album,
\* artwork, duration, trackId and timestamp as they are; by induction they
\* stay those of the call that wrote the entry.
C7_SameTrackKeepsMetadata ==
  [][(/\ UpdateCalled
      /\ cache.trackId # Null
      /\ call'.trackId = cache.trackId
      /\ now - cache.timestamp <= FiveMinutes)
     => /\ cache'.trackId = cache.trackId
        /\ cache'.title = cache.title
        /\ cache'.artist = cache.artist
        /\ cache'.album = cache.album
        /\ cache'.artwork = cache.artwork
        /\ cache'.duration = cache.duration
        /\ cache'.timestamp = cache.timestamp]_vars

\* A call with the cached id and the metadata of another track, exactly 5
\* minutes after the entry was written: the entry keeps its own.
C7_Witness ==
  /\ call.op = "updateTrackCache"
  /\ call.trackInfo # NullInfo
  /\ call.preKind = "valid"
  /\ call.trackId = call.preId
  /\ call.at = now
  /\ call.at - cache.timestamp = FiveMinutes
  /\ OrStr(call.trackInfo.title, Null) # cache.title

\* C8: updateTrackCache with a snapshot, the cached id and a valid cache
\* returns false and leaves position and isPlaying those of the snapshot;
\* with a snapshot in every other case it returns true.
C8_PositionOnlyBranch ==
  (call.op = "updateTrackCache" /\ call.trackInfo # NullInfo /\ call.at = now) =>
    IF call.preKind = "valid" /\ call.trackId = call.preId
    THEN /\ call.ret = FALSE
         /\ cache.position = call.trackInfo.position
         /\ cache.isPlaying = call.trackInfo.isPlaying
    ELSE call.ret = TRUE

\* The entry updateTrackCache writes for a new trackId, fields taken as
\* they are in the snapshot.
SnapshotEntry(trackInfo, trackId, t) ==
  [trackId |-> trackId, title |-> trackInfo.title, artist |-> trackInfo.artist,
   album |-> trackInfo.album, artwork |-> trackInfo.artwork,
   position |-> trackInfo.position, duration |-> trackInfo.duration,
   isPlaying |-> trackInfo.isPlaying, timestamp |-> t]

\* The same entry with an empty string stored as null.
StoredEntry(trackInfo, trackId, t) ==
  [trackId |-> OrStr(trackId, Null), title |-> OrStr(trackInfo.title, Null),
   artist |-> OrStr(trackInfo.artist, Null),
   album |-> OrStr(trackInfo.album, Null),
   artwork |-> OrStr(trackInfo.artwork, Null),
   position |-> trackInfo.position, duration |-> trackInfo.duration,
   isPlaying |-> trackInfo.isPlaying, timestamp |-> t]

\* C9 as stated: updateTrackCache with a trackId other than the cached one
\* makes every field of the entry the snapshot's value and the timestamp
\* the current time.
C9_ReplacedBySnapshot ==
  [][(UpdateCalled /\ call'.trackId # cache.trackId)
     => cache' = SnapshotEntry(call'.trackInfo, call'.trackId, now)]_vars

\* C9: updateTrackCache with a trackId other than the cached one makes
\* every field of the entry the snapshot's value, an empty string stored
\* as null, and the timestamp the current time, whether the entry was
\* empty, valid or expired; nothing of the previous entry is kept.
C9_ReplacedBySnapshotOrNull ==
  [][(UpdateCalled /\ call'.trackId # cache.trackId)
     => cache' = StoredEntry(call'.trackInfo, call'.trackId, now)]_vars

\* A valid entry of one track was replaced by a snapshot of another track
\* that has no artist.
C9_Witness ==
  /\ call.op = "updateTrackCache"
  /\ call.trackInfo # NullInfo
  /\ call.preKind = "valid"
  /\ call.trackId \notin {call.preId, Null, ""}
  /\ call.trackInfo.artist = ""
  /\ call.at = now
  /\ cache = StoredEntry(call.trackInfo, call.trackId, now)

\* C10: isCacheValid() returns true exactly when the cached trackId is not
\* null and now - timestamp <= 5 minutes, so false for the initial and the
\* cleared cache and for an entry older than 5 minutes; updateTrackCache
\* with a snapshot takes its position-only branch (returns false) exactly
\* when the cache is valid in that sense and the trackId is the cached one.
C10_ValidityWindow ==
  [][call' # call =>
       /\ call'.op = "isCacheValid" =>
            /\ call'.ret <=> (cache.trackId # Null
                              /\ now - cache.timestamp <= FiveMinutes)
            /\ cache = EmptyCache => ~call'.ret
            /\ call.op = "clearTrackCache" => ~call'.ret
            /\ now - cache.timestamp > FiveMinutes => ~call'.ret
       /\ (call'.op = "updateTrackCache" /\ call'.trackInfo # NullInfo) =>
            ((call'.ret = FALSE) <=>
               (/\ cache.trackId # Null
                /\ now - cache.timestamp <= FiveMinutes
                /\ call'.trackId = cache.trackId))]_vars

\* updateTrackCache took its position-only branch exactly 5 minutes after
\* the entry was written.
C10_Witness ==
  /\ call.op = "updateTrackCache"
  /\ call.trackInfo # NullInfo
  /\ call.ret = FALSE
  /\ call.at = now
  /\ now - cache.timestamp = FiveMinutes

\* C11: updatePositionInCache changes nothing when no track is cached;
\* otherwise it sets position and isPlaying and leaves every other field,
\* the timestamp included, so the cache is valid after the call exactly
\* when it was before.
C11_PositionUpdateFrame ==
  [][(call' # call /\ call'.op = "updatePositionInCache") =>
       /\ cache.trackId = Null => cache' = cache
       /\ cache.trackId # Null =>
            /\ cache'.position = call'.position
            /\ cache'.isPlaying = call'.isPlaying
       /\ cache'.trackId = cache.trackId
       /\ cache'.title = cache.title
       /\ cache'.artist = cache.artist
       /\ cache'.album = cache.album
       /\ cache'.artwork = cache.artwork
       /\ cache'.duration = cache.duration
       /\ cache'.timestamp = cache.timestamp
       /\ isCacheValid(cache', now) <=> isCacheValid(cache, now)]_vars

\* The position of an expired entry was updated: the entry has the new
\* position and is still expired.
C11_Witness ==
  /\ call.op = "updatePositionInCache"
  /\ call.preKind = "expired"
  /\ call.at = now
  /\ call.position # 0
  /\ cache.position = call.position
  /\ ~isCacheValid(cache, now)

(***************************************************************************)
(* Properties of the player queries and commands (Spec).                   *)
(***************************************************************************)
\* The step resumes task t with a probe of the player that failed.
ProbeFailed(t) ==
  \/ t.pc = "running" /\ Apply(resumeRunning(stateOf(t), t, FALSE), t)
  \/ /\ t.pc = "identity"
     /\ \E position \in Positions :
          Apply(resumeIdentity(stateOf(t), t, FALSE, position), t)

\* The step resumes task t with a probe that finds the player not running
\* or not playing.
ProbeFoundNothing(t) ==
  /\ t \notin tasks'
  /\ \/ t.pc = "running" /\ player.state = "off"
     \/ t.pc = "identity" /\ player.state # "playing"

\* C12: getTrackInfoWithAppleScript returns null exactly when its expensive
\* script fails; when a probe fails or finds the player not running or not
\* playing it returns the nothing-playing snapshot (title "No track is
\* playing", position 0, duration 0), and every call returns to its caller.
C12_NullOnlyFromFetch ==
  [][/\ lastQuery'.via # "none" =>
          /\ lastQuery'.ret = NullInfo <=> lastQuery'.via = "error"
          /\ lastQuery'.via = "error" =>
               \E t \in tasks : t.pc = "fetch" /\ t \notin tasks'
     /\ \A t \in tasks :
          (ProbeFailed(t) \/ ProbeFoundNothing(t)) =>
            /\ lastQuery'.via = "nothing"
            /\ lastQuery'.ret # NullInfo
            /\ lastQuery'.ret.title = NoTrackTitle
            /\ lastQuery'.ret.position = 0
            /\ lastQuery'.ret.duration = 0
            /\ lastDraw'.called]_vars

\* The nothing-playing snapshot was returned while the player plays: a
\* probe failed.
C12_Witness ==
  /\ lastQuery.via = "nothing"
  /\ lastQuery.ret.title = NoTrackTitle
  /\ player.state = "playing"

(***************************************************************************)
(* ApiSpec: the exported functions of music_control (part_003) that change *)
(* the player or read its position, called directly, on every cache that   *)
(* updateTrackCache can have written at the start.                         *)
(***************************************************************************)
\* The entries updateTrackCache writes into the empty cache.
CachedEntries ==
  {EmptyCache} \cup
  {updateTrackCache(EmptyCache, trackInfo, trackId, StartNow).cache :
     trackInfo \in TrackInfoInputs, trackId \in Tracks}

ApiInit ==
  /\ cache \in CachedEntries
  /\ now = StartNow
  /\ call = NoCall
  /\ connectedDevices = {}
  /\ keyData = [u \in Uids |-> NoKey]
  /\ updateIntervals = [n \in Names |-> NoInterval]
  /\ unreferenced = {}
  /\ tasks = {}
  /\ player \in PlayerStates
  /\ artworkFile = NoFile
  /\ lastDraw = NoDraw
  /\ lastQuery = NoQuery
  /\ lastError = "none"
  /\ config = DefaultConfig
  /\ display = "ok"
  /\ events = 0

TransportCalls ==
  {"togglePlayPause", "nextTrack", "previousTrack", "setPlaybackPosition"}

\* part_003:220-251: the command each function sends.
scriptOf(f) ==
  CASE f = "togglePlayPause" -> "playpause"
    [] f = "nextTrack" -> "next track"
    [] f = "previousTrack" -> "previous track"
    [] OTHER -> "set player position"

\* The record of a call that returns in this step.
recordCall(op) ==
  [NoCall EXCEPT !.op = op, !.preId = cache.trackId,
                 !.preKind = kindOf(cache, now), !.at = now,
                 !.seq = 1 - call.seq]

\* A transport function is called: it runs to its await of osascript.
CallTransport ==
  \E f \in TransportCalls :
    Apply(suspend(stateOf(Finished), newTask(f, "command", "", "", "")), Finished)

\* The call t of a transport function returns, osascript having succeeded
\* (ok) or thrown.
ReturnTransportOf(t, ok, track) ==
  /\ t.kind \in TransportCalls
  /\ t.pc = "command"
  /\ ApplyCall(finish(executeAppleMusicCommand(stateOf(t), ok, scriptOf(t.kind),
                                               track)),
               t, [recordCall(t.kind) EXCEPT !.ret = commandReturn(ok)])

ReturnTransport ==
  \E t \in tasks, ok \in BOOLEAN, track \in Tracks : ReturnTransportOf(t, ok, track)

\* getPlaybackPosition is called: it runs to the await in isAppleMusicRunning.
CallGetPlaybackPosition ==
  Apply(suspend(stateOf(Finished),
                newTask("getPlaybackPosition", "posRunning", "", "", "")),
        Finished)

\* part_003:80-83
ReturnPosRunningOf(t, ok) ==
  /\ t.kind = "getPlaybackPosition"
  /\ t.pc = "posRunning"
  /\ LET S1 == resumePosRunning(stateOf(t), t, ok) IN
       IF S1.task = Finished
       THEN ApplyCall(S1, t, [recordCall(t.kind) EXCEPT !.result = defaultPosition])
       ELSE Apply(S1, t)

ReturnPosRunning ==
  \E t \in tasks, ok \in BOOLEAN : ReturnPosRunningOf(t, ok)

\* part_003:98-112
ReturnPositionOf(t, ok, position) ==
  /\ t.kind = "getPlaybackPosition"
  /\ t.pc = "position"
  /\ ApplyCall(finish(afterPosition(stateOf(t), ok, position)), t,
               [recordCall(t.kind) EXCEPT
                  !.result = positionReply(player, ok, position)])

ReturnPosition ==
  \E t \in tasks, ok \in BOOLEAN, position \in Positions :
    ReturnPositionOf(t, ok, position)

ApiNext ==
  \/ Tick
  \/ CallTransport
  \/ ReturnTransport
  \/ CallGetPlaybackPosition
  \/ ReturnPosRunning
  \/ ReturnPosition

ApiSpec == ApiInit /\ [][ApiNext]_vars

\* C13: a transport function whose osascript call succeeds returns true and
\* leaves the cache cleared; one whose call fails returns false to its
\* caller and leaves the cache (and the player) as they were.
C13_CommandClearsCache ==
  [][\A t \in tasks, track \in Tracks :
       /\ ReturnTransportOf(t, TRUE, track) =>
            /\ call'.op = t.kind
            /\ call'.ret = TRUE
            /\ cache' = EmptyCache
       /\ ReturnTransportOf(t, FALSE, track) =>
            /\ call'.op = t.kind
            /\ call'.ret = FALSE
            /\ cache' = cache
            /\ player' = player]_vars

\* setPlaybackPosition failed and returned false: the valid entry of the
\* cache is still there.
C13_Witness ==
  /\ call.op = "setPlaybackPosition"
  /\ call.ret = FALSE
  /\ call.at = now
  /\ call.preKind = "valid"
  /\ cache.trackId = call.preId

\* C14: getPlaybackPosition returns the zeroed default and leaves the cache
\* as it was when the player is not running or a script fails; when its
\* script succeeds it passes the position and isPlaying it returns to
\* updatePositionInCache.
C14_PlaybackPosition ==
  [][\A t \in tasks :
       /\ (\/ ReturnPosRunningOf(t, FALSE)
           \/ ReturnPosRunningOf(t, TRUE) /\ player.state = "off"
           \/ \E position \in Positions : ReturnPositionOf(t, FALSE, position))
          => /\ call'.op = "getPlaybackPosition"
             /\ call'.result = defaultPosition
             /\ cache' = cache
       /\ \A position \in Positions :
            ReturnPositionOf(t, TRUE, position) =>
              /\ call'.op = "getPlaybackPosition"
              /\ call'.result.isRunning
              /\ call'.result.isPlaying = (player.state = "playing")
              /\ call'.result.position =
                   (IF player.state = "playing" THEN position ELSE 0)
              /\ cache' = updatePositionInCache(cache, call'.result.position,
                                                call'.result.isPlaying)]_vars

\* The script failed while a track plays: the default was returned and the
\* cached position is still the one cached before.
C14_Witness ==
  /\ call.op = "getPlaybackPosition"
  /\ call.result = defaultPosition
  /\ call.at = now
  /\ player.state = "playing"
  /\ cache.trackId # Null
  /\ cache.position # 0

(***************************************************************************)
(* IntervalSpec: the functions of interval-utils (package.json:39-98)      *)
(* called directly, with every name, callback and delay of small sets.     *)
(***************************************************************************)
Callbacks == {"full", "progress"}
Delays == {updateRate, ProgressDelay}

intervalState == [table |-> updateIntervals, unreferenced |-> unreferenced]

\* The step of a synchronous call that leaves st and the record c.
IntervalCall(st, c) ==
  /\ updateIntervals' = st.table
  /\ unreferenced' = st.unreferenced
  /\ call' = c
  /\ UNCHANGED <<cache, now, connectedDevices, keyData, tasks, player,
                 artworkFile, lastDraw, lastQuery, lastError, events,
                 config, display>>

CallSetManagedIntervalOf(id, callback, delay) ==
  IntervalCall(setManagedInterval(intervalState, id, callback, "d1", delay),
               [recordCall("setManagedInterval") EXCEPT
                  !.args = [name |-> id, callback |-> callback, delay |-> delay,
                            before |-> updateIntervals[id]]])

CallSetManagedInterval ==
  \E id \in Names, callback \in Callbacks, delay \in Delays :
    CallSetManagedIntervalOf(id, callback, delay)

CallClearManagedIntervalOf(id) ==
  IntervalCall(clearManagedInterval(intervalState, id),
               [recordCall("clearManagedInterval") EXCEPT
                  !.args.name = id, !.args.before = updateIntervals[id]])

CallClearManagedInterval == \E id \in Names : CallClearManagedIntervalOf(id)

CallClearKeyIntervalsOf(keyUid) ==
  IntervalCall(clearKeyIntervals(intervalState, keyUid),
               [recordCall("clearKeyIntervals") EXCEPT
                  !.args.name = mainName(keyUid),
                  !.args.before = updateIntervals[mainName(keyUid)]])

CallClearKeyIntervals == \E keyUid \in Uids : CallClearKeyIntervalsOf(keyUid)

CallClearAllIntervals ==
  IntervalCall(clearAllIntervals(intervalState), recordCall("clearAllIntervals"))

IntervalNext ==
  \/ CallSetManagedInterval
  \/ CallClearManagedInterval
  \/ CallClearKeyIntervals
  \/ CallClearAllIntervals

IntervalSpec == CacheInit /\ [][IntervalNext]_vars

\* C15: setManagedInterval for a name that has an active timer creates no
\* timer and leaves the table, so the timer's callback and delay, as they
\* are; the timer of a name changes only by being cleared, and no timer
\* ever runs beside the one of the table.
C15_SetIsIdempotent ==
  [][/\ \A id \in Names, callback \in Callbacks, delay \in Delays :
          (CallSetManagedIntervalOf(id, callback, delay)
             /\ updateIntervals[id] # NoInterval)
          => /\ updateIntervals' = updateIntervals
             /\ running(updateIntervals', unreferenced')
                  = running(updateIntervals, unreferenced)
     /\ \A n \in Names :
          (updateIntervals[n] # NoInterval /\ updateIntervals'[n] # updateIntervals[n])
          => /\ updateIntervals'[n] = NoInterval
             /\ call'.op # "setManagedInterval"
     /\ unreferenced' = {}]_vars

\* setManagedInterval was called with another callback and another delay
\* for a name whose timer is active: the timer is the one it was.
C15_Witness ==
  /\ call.op = "setManagedInterval"
  /\ call.args.before # NoInterval
  /\ call.args.callback # call.args.before.callback
  /\ call.args.delay # call.args.before.delay
  /\ updateIntervals[call.args.name] = call.args.before

\* C17: clearKeyIntervals(uid) leaves neither uid nor uid_progress in the
\* table and neither timer running, and every other name as it was; called
\* when neither is registered it changes nothing, as clearManagedInterval
\* does for a name that is not registered.
C17_ClearKeyIntervals ==
  [][/\ \A keyUid \in Uids :
          CallClearKeyIntervalsOf(keyUid) =>
            /\ updateIntervals'[mainName(keyUid)] = NoInterval
            /\ updateIntervals'[progressName(keyUid)] = NoInterval
            /\ \A i \in running(updateIntervals', unreferenced') :
                 i.name \notin {mainName(keyUid), progressName(keyUid)}
            /\ \A n \in Names \ {mainName(keyUid), progressName(keyUid)} :
                 updateIntervals'[n] = updateIntervals[n]
            /\ unreferenced' = unreferenced
            /\ (/\ updateIntervals[mainName(keyUid)] = NoInterval
                /\ updateIntervals[progressName(keyUid)] = NoInterval)
               => updateIntervals' = updateIntervals
     /\ \A id \in Names :
          (CallClearManagedIntervalOf(id) /\ updateIntervals[id] = NoInterval)
          => /\ updateIntervals' = updateIntervals
             /\ unreferenced' = unreferenced]_vars

\* clearKeyIntervals removed the active timers of one key and the timer of
\* the other key is still in the table.
C17_Witness ==
  /\ call.op = "clearKeyIntervals"
  /\ call.args.before # NoInterval
  /\ updateIntervals[call.args.name] = NoInterval
  /\ updateIntervals[<<call.args.name[1], "_progress">>] = NoInterval
  /\ \E n \in Names : updateIntervals[n] # NoInterval

\* ---------------------------------------------------------------------------
\* C16: for every recurring timer of the plugin, an invocation of its
\* callback that throws or rejects is caught, the timer keeps firing
\* afterwards, and no other timer is stopped or removed from the table.
\* The timers that plugin.alive and plugin.data create with setInterval
\* directly have no handler around the callback: the statement fails for them.
C16_ThrowIsCaught ==
  [][\A tm \in running(updateIntervals, unreferenced) :
       TimerFireThrowsOf(tm) =>
         /\ lastError' = "caught"
         /\ running(updateIntervals', unreferenced') =
              running(updateIntervals, unreferenced)]_vars

\* ---------------------------------------------------------------------------
\* C18: a key press for a device that is not in connectedDevices sends no
\* transport command, performs no player query, issues no draw, and leaves
\* the cache, the timer table, keyData and connectedDevices unchanged.  The
\* handler looks the device up when it resumes from its first getConfig
\* (plugin.js:314): both of its runs are covered, the one from the event to
\* that await and the one that finds the device missing and returns.
IgnoredPressFrame ==
  /\ lastDraw' = NoDraw
  /\ lastQuery' = NoQuery
  /\ UNCHANGED <<cache, updateIntervals, unreferenced, keyData,
                 connectedDevices, player, artworkFile>>

C18_IgnoredPress ==
  [][/\ \A serial \in Devices, uid \in Uids :
          (PluginDataOf(serial, uid) /\ serial \notin connectedDevices)
            => IgnoredPressFrame
     /\ \A t \in tasks :
          (ResumeDataConfigOf(t) /\ t.serial \notin connectedDevices)
            => (IgnoredPressFrame /\ tasks' = tasks \ {t})]_vars

\* The press of a registered key is waiting for its first getConfig and its
\* device is not connected.
C18_Witness ==
  \E t \in tasks :
    /\ t.kind = "data" /\ t.pc = "config1"
    /\ t.serial \notin connectedDevices
    /\ keyData[t.uid] # NoKey

\* ---------------------------------------------------------------------------
\* The step in which the plugin.alive handler t returns, its device still in
\* connectedDevices (no plugin.stop has emptied it since).
AliveFinishes(t) ==
  /\ t.kind = "alive"
  /\ tasks' = tasks \ {t}
  /\ t.serial \in connectedDevices'

\* The intervals of key uid that are running after the step.
TimersAfter(uid) ==
  {tm \in running(updateIntervals', unreferenced') : tm.name[1] = uid}

\* C19: when plugin.alive has finished (with no stop in between) for a key
\* set holding a key with the track info component id of the manifest, that
\* key has been drawn at least once (its title was set for the draw of
\* plugin.js:248-253) and exactly two timers are active for it: uid at
\* updateRate and uid_progress at 1000 ms.
\* The handler compares key.cid with `${PLUGIN_UUID}.trackinfo`, which the
\* component id of the manifest is not: the statement fails.
C19_ManifestTrackInfoKeyIsSetUp ==
  [][\A t \in tasks : AliveFinishes(t) =>
       \A i \in DOMAIN t.keys :
         t.keys[i].cid = MANIFEST_TRACKINFO =>
           /\ keyData'[t.keys[i].uid].title # ""
           /\ Cardinality(TimersAfter(t.keys[i].uid)) = 2
           /\ {<<tm.name, tm.delay>> : tm \in TimersAfter(t.keys[i].uid)} =
                {<<mainName(t.keys[i].uid), updateRate>>,
                 <<progressName(t.keys[i].uid), ProgressDelay>>}]_vars

\* C20: when plugin.alive has finished for a key set holding a play/pause
\* key, the play/pause state has been pushed to that key (a draw of that key
\* in the run that handled it) and a recurring refresh timer at updateRate
\* is active for it.
\* The handler has no branch for the play/pause key, under either spelling
\* of its component id: the statement fails.
C20_PlayPauseKeyIsSetUp ==
  [][\A t \in tasks : AliveFinishes(t) =>
       \A i \in DOMAIN t.keys :
         t.keys[i].cid \in {PLAYPAUSE, MANIFEST_PLAYPAUSE} =>
           /\ lastDraw'.issued /\ lastDraw'.uid = t.keys[i].uid
           /\ \E tm \in TimersAfter(t.keys[i].uid) : tm.delay = updateRate]_vars

(***************************************************************************)
(* Two devices.  keyData is one table for every device (consts.js:15):     *)
(* device d1 registers the track info key k1, device d2 the transport key  *)
(* k2, and keys are pressed on either device.                              *)
(***************************************************************************)
TwoDevices == {"d1", "d2"}

\* The key list each device sends with plugin.alive.
KeysOf(serial) ==
  IF serial = "d1" THEN {<<[uid |-> "k1", cid |-> TRACKINFO]>>}
  ELSE {<<[uid |-> "k2", cid |-> c]>> : c \in {NEXT, PREVIOUS}}

\* The device that registered a key.
OwnerOf(uid) == IF uid = "k1" THEN "d1" ELSE "d2"

DeviceAlive ==
  \E serial \in TwoDevices :
    \E keys \in KeysOf(serial) :
      Apply(suspend(stateOf(Finished),
                    [newTask("alive", "config1", serial, "", "")
                       EXCEPT !.keys = keys, !.rest = keys]),
            Finished)

\* A key is pressed on the device that shows it.
DeviceData == \E uid \in Uids : PluginDataOf(OwnerOf(uid), uid)

DeviceNext ==
  \/ DeviceAlive
  \/ DeviceData
  \/ ResumeAliveConfig
  \/ ResumeAliveKeyConfig
  \/ ResumeDataConfig
  \/ ResumeDataKeyConfig
  \/ ResumeCommand
  \/ ResumeRunning
  \/ ResumeIdentity
  \/ ResumeFetch
  \/ ResumeReadFile
  \/ ResumeUnlink
  \/ PlayerChange

DeviceSpec == Init /\ [][DeviceNext]_vars

\* C21: with keys registered on two connected devices, a next or previous
\* press on device d sends the command and then re-renders the track info
\* keys that belong to d: the handler goes on to render a key only if d
\* registered it, and what it draws is a key of d drawn to d.
\* updateTrackInfoKey scans keyData, which holds the keys of every device,
\* and draws the first track info key it finds to the device of the press:
\* the statement fails.
C21_PressRendersOwnKeys ==
  [][\A t \in tasks :
       (t.kind = "data" /\ t.cid \in {NEXT, PREVIOUS} /\ t \notin tasks') =>
         /\ \A u \in tasks' \ tasks : OwnerOf(u.uid) = t.serial
         /\ lastDraw'.issued =>
              (lastDraw'.serial = t.serial /\ OwnerOf(lastDraw'.uid) = t.serial)]_vars

\* ---------------------------------------------------------------------------
\* C22: a press on a track info or play/pause key invokes togglePlayPause
\* and re-renders, and does nothing to the timers: no run of the press
\* handler changes which intervals are running, their callbacks or their
\* delays.
\* The track info branch of plugin.data ends with two setInterval calls
\* (plugin.js:326, 339): the statement fails.
C22_PressKeepsTimers ==
  [][\A t \in tasks :
       (t.kind = "data" /\ t.cid \in {TRACKINFO, PLAYPAUSE} /\ t \notin tasks') =>
         /\ running(updateIntervals', unreferenced') =
              running(updateIntervals, unreferenced)
         /\ updateIntervals' = updateIntervals]_vars

(***************************************************************************)
(* RenderSpec: updateTrackInfo called on one track info key with every     *)
(* track info of a small set.  call.key is the key object: the style and   *)
(* data the host gave it, after the set-up of plugin.alive, then after     *)
(* each updateTrackInfo.                                                   *)
(***************************************************************************)
Optional == {Undefined, Yes, No}

\* key.style as the host sends it (typedef KeyStyle, plugin.js:25-33; the
\* manifest's style has icon and showTitle only).
HostStyles ==
  {[icon |-> MusicIcon, showIcon |-> Undefined, showTitle |-> Yes,
    showProgress |-> sp, progress |-> NoProgress,
    progressBarColor |-> Undefined] : sp \in Optional}

\* key.data as the host sends it (typedef KeyData, plugin.js:36-42).
KeyDatas ==
  {[showProgress |-> sp, showArtwork |-> sa, progressBarColor |-> Undefined] :
     sp \in Optional, sa \in Optional}

\* plugin.js:245-251
aliveStyle(style) ==
  [style EXCEPT !.showTitle = Yes, !.icon = MusicIcon, !.showIcon = Yes]

\* What getTrackInfoWithAppleScript may return.
RenderInputs ==
  {NullInfo, nothingPlaying(FALSE, FALSE), nothingPlaying(FALSE, TRUE)}
  \cup {ti \in TrackInfoInputs : ti.isPlaying}
  \cup {trackInfoObject(m, a, p, DurationOf(m), TRUE, TRUE) :
          m \in Tracks, a \in {ArtworkReadError, Null}, p \in Positions}

RenderInit ==
  /\ cache = EmptyCache
  /\ now = StartNow
  /\ connectedDevices = {}
  /\ keyData = [u \in Uids |-> NoKey]
  /\ updateIntervals = [n \in Names |-> NoInterval]
  /\ unreferenced = {}
  /\ tasks = {}
  /\ player = [state |-> "off", track |-> NoTrack]
  /\ artworkFile = NoFile
  /\ lastDraw = NoDraw
  /\ lastQuery = NoQuery
  /\ lastError = "none"
  /\ config = DefaultConfig
  /\ display = "ok"
  /\ events = 0
  /\ call \in {[op |-> "plugin.alive", trackInfo |-> NullInfo, before |-> hs,
                key |-> [style |-> aliveStyle(hs), data |-> d,
                         title |-> "Nothing playing"]] :
                 hs \in HostStyles, d \in KeyDatas}

\* plugin.js:94-147: updateTrackInfo once the query has returned trackInfo.
CallUpdateTrackInfoOf(trackInfo) ==
  /\ call' = [op |-> "updateTrackInfo", trackInfo |-> trackInfo,
              before |-> call.key.style,
              key |-> [call.key EXCEPT
                         !.style = renderStyle(call.key.style, call.key.data,
                                               trackInfo),
                         !.title = renderTitle(trackInfo)]]
  /\ UNCHANGED <<cache, now, pluginVars>>

CallUpdateTrackInfo == \E trackInfo \in RenderInputs : CallUpdateTrackInfoOf(trackInfo)

RenderNext == CallUpdateTrackInfo

RenderSpec == RenderInit /\ [][RenderNext]_vars

\* updateTrackInfo has just rendered the snapshot of a playing track.
RenderedPlaying ==
  /\ call.op = "updateTrackInfo"
  /\ call.trackInfo # NullInfo
  /\ call.trackInfo.title # NoTrackTitle

\* C23: for the snapshot of a playing track, updateTrackInfo sets the key
\* icon to the artwork data only when artwork data is present and
\* key.data.showArtwork is not false; otherwise the icon is the generic
\* music icon.
\* With artwork present and showArtwork false the code keeps the artwork as
\* the icon and hides the icon: the statement fails.
C23_ArtworkOrMusicIcon ==
  RenderedPlaying =>
    call.key.style.icon =
      IF isDataImage(call.trackInfo.artwork) /\ call.key.data.showArtwork # No
      THEN call.trackInfo.artwork
      ELSE MusicIcon

\* C24: for the snapshot of a playing track, updateTrackInfo sets progress
\* to position/duration when duration > 0 and to 0 when duration is 0, with
\* showProgress true unless key.data.showProgress is false, in which case
\* the drawn style has the progress bar hidden whatever the previous style
\* of the key held.
\* With key.data.showProgress false the code leaves showProgress as the
\* previous style had it: the statement fails.
C24_ProgressShownUnlessDisabled ==
  RenderedPlaying =>
    IF call.key.data.showProgress # No
    THEN /\ call.key.style.showProgress = Yes
         /\ call.key.style.progress =
              IF call.trackInfo.duration > 0
              THEN <<call.trackInfo.position, call.trackInfo.duration>>
              ELSE <<0, 1>>
    ELSE call.key.style.showProgress # Yes

\* C25: when the full-track query returns null, updateTrackInfo draws the
\* title "No track info" with the music-off icon and the progress hidden;
\* when it returns the nothing-playing snapshot it draws "No track playing"
\* with the music-off icon and the progress hidden; the two titles differ.
C25_NullAndNothingPlaying ==
  (call.op = "updateTrackInfo" /\ ~RenderedPlaying) =>
    /\ call.key.title =
         IF call.trackInfo = NullInfo THEN "No track info" ELSE "No track playing"
    /\ call.key.style.icon = MusicOffIcon
    /\ call.key.style.showIcon = Yes
    /\ call.key.style.showProgress = No
    /\ renderTitle(NullInfo) # renderTitle(nothingPlaying(FALSE, FALSE))

\* The query returned null for a key whose progress bar was shown.
C25_Witness ==
  /\ call.op = "updateTrackInfo"
  /\ call.trackInfo = NullInfo
  /\ call.before.showProgress = Yes
  /\ call.before.icon # MusicOffIcon

\* ---------------------------------------------------------------------------
\* C26: when the running probe reports that the player is not running,
\* getTrackInfoWithAppleScript returns the snapshot with title "No track is
\* playing", isPlaying false and isRunning false, without the identity probe
\* or the fetch and without touching the cache, and updateTrackInfo then
\* draws the key with "No track playing" and the music-off icon (the draw
\* is issued if the device is connected).
C26_NotRunning ==
  [][\A t \in tasks, ok \in BOOLEAN :
       (ResumeRunningOf(t, ok) /\ ~isAppleMusicRunning(player, ok)) =>
         /\ lastQuery'.ret = nothingPlaying(FALSE, FALSE)
         /\ lastQuery'.ret.title = "No track is playing"
         /\ \A u \in tasks' \ tasks : u.pc \notin {"identity", "fetch"}
         /\ cache' = cache
         /\ keyData'[t.uid].title = "No track playing"
         /\ \A hs \in HostStyles, d \in KeyDatas :
              renderStyle(aliveStyle(hs), d, lastQuery'.ret).icon = MusicOffIcon
         /\ lastDraw'.called /\ lastDraw'.uid = t.uid
         /\ lastDraw'.serial = t.serial
         /\ lastDraw'.issued = (t.serial \in connectedDevices)]_vars

\* The player is off, the query has returned the nothing-playing snapshot
\* from the running probe and the key has been drawn.
C26_Witness ==
  /\ player.state = "off"
  /\ lastQuery.via = "nothing"
  /\ lastQuery.probe = defaultResponse
  /\ lastQuery.ret = nothingPlaying(FALSE, FALSE)
  /\ lastDraw.issued
  /\ keyData[lastDraw.uid].title = "No track playing"

(***************************************************************************)
(* ConfigSpec: saveConfig of the configuration page, in its two versions   *)
(* (part_001 and ui/config_page.vue), called with what the user typed.     *)
(* A number that may be missing (undefined, NaN) is a set of at most one   *)
(* number; a text is a sequence of characters.                             *)
(***************************************************************************)
DigitValue ==
  [c \in {"0", "1", "2", "3", "4", "5", "6", "7", "8", "9"} |->
     CASE c = "0" -> 0 [] c = "1" -> 1 [] c = "2" -> 2 [] c = "3" -> 3
       [] c = "4" -> 4 [] c = "5" -> 5 [] c = "6" -> 6 [] c = "7" -> 7
       [] c = "8" -> 8 [] OTHER -> 9]

\* The value of the longest prefix of digits of text, read after acc.
RECURSIVE parseDigits(_, _)
parseDigits(text, acc) ==
  IF text = <<>> \/ Head(text) \notin DOMAIN DigitValue THEN acc
  ELSE parseDigits(Tail(text), 10 * acc + DigitValue[Head(text)])

\* JavaScript parseInt on a text without sign or blanks: NaN ({}) unless
\* the text starts with a digit.
parseInt(text) ==
  IF text = <<>> \/ Head(text) \notin DOMAIN DigitValue THEN {}
  ELSE {parseDigits(text, 0)}

isNaN(v) == v = {}

\* JavaScript a < b and a > b on numbers that may be missing: false when
\* either is undefined or NaN.
jsLess(a, b) == \E x \in a, y \in b : x < y
jsGreater(a, b) == jsLess(b, a)

PageMin == 1000
PageMax == 60000

\* part_001:59-71.  The result: the configuration the host stores, whether
\* setConfig was called and the message shown.
saveConfig(stored, text) ==
  LET rate == parseInt(text) IN
    IF isNaN(rate) \/ jsLess(rate, stored.minUpdateRate)
                         \/ jsGreater(rate, stored.maxUpdateRate)
    THEN [config |-> stored, setConfig |-> FALSE, message |-> "error"]
    ELSE [config |-> [stored EXCEPT !.updateRate = rate],
          setConfig |-> TRUE, message |-> "success"]

\* ui/config_page.vue:59-70
saveConfigPage(stored, text) ==
  LET rate == parseInt(text) IN
    IF isNaN(rate) \/ jsLess(rate, {PageMin})
                         \/ jsGreater(rate, {PageMax})
    THEN [config |-> stored, setConfig |-> FALSE, message |-> "error"]
    ELSE [config |-> [stored EXCEPT !.updateRate = rate],
          setConfig |-> TRUE, message |-> "success"]

\* What the user may type.
Entered ==
  {<<>>, <<"a">>, <<"4", "9", "9">>, <<"5", "0", "0">>, <<"9", "9", "9">>,
   <<"1", "0", "0", "0">>, <<"3", "0", "0", "0">>, <<"1", "5", "0", "0", ".", "7">>,
   <<"6", "0", "0", "0", "0">>, <<"6", "0", "0", "0", "1">>,
   <<"7", "0", "0", "0", "0", "0">>}

\* The configuration the host holds at the start: nothing (the manifest
\* declares no configuration), or an update rate with its two bounds.
StoredConfigs == {NoConfig, DefaultConfig}

ConfigInit ==
  /\ cache = EmptyCache
  /\ now = StartNow
  /\ connectedDevices = {}
  /\ keyData = [u \in Uids |-> NoKey]
  /\ updateIntervals = [n \in Names |-> NoInterval]
  /\ unreferenced = {}
  /\ tasks = {}
  /\ player = [state |-> "off", track |-> NoTrack]
  /\ artworkFile = NoFile
  /\ lastDraw = NoDraw
  /\ lastQuery = NoQuery
  /\ lastError = "none"
  /\ config \in StoredConfigs
  /\ display = "ok"
  /\ events = 0
  /\ call = [op |-> "none", page |-> "", entered |-> <<>>, before |-> config,
             setConfig |-> FALSE, message |-> ""]

recordSave(page, text, r) ==
  /\ config' = r.config
  /\ call' = [op |-> "saveConfig", page |-> page, entered |-> text,
              before |-> config, setConfig |-> r.setConfig,
              message |-> r.message]
  /\ UNCHANGED <<cache, now, connectedDevices, keyData, updateIntervals,
                 unreferenced, tasks, player, artworkFile, lastDraw, lastQuery,
                 lastError, events, display>>

CallSaveConfig ==
  \E text \in Entered : recordSave("part_001", text, saveConfig(config, text))

CallSaveConfigPage ==
  \E text \in Entered :
    recordSave("config_page.vue", text, saveConfigPage(config, text))

ConfigNext == CallSaveConfig \/ CallSaveConfigPage

ConfigSpec == ConfigInit /\ [][ConfigNext]_vars

\* The bound in force: the one of the configuration, or the default.
boundOr(b, default) == IF b = {} THEN default ELSE CHOOSE x \in b : TRUE

\* C27: saveConfig calls setConfig with the new updateRate exactly when the
\* value typed parses to an integer inside [minUpdateRate, maxUpdateRate]
\* (defaults 500 and 60000, both accepted); for any other value it shows an
\* error, does not call setConfig and the stored updateRate keeps its value.
\* part_001 compares with bounds the configuration may not hold, and the
\* page compares with 1000: the statement fails for both.
C27_SaveConfigValidates ==
  call.op = "saveConfig" =>
    LET v == parseInt(call.entered)
        valid == \E n \in v :
                   /\ n >= boundOr(call.before.minUpdateRate, MinUpdateRate)
                   /\ n <= boundOr(call.before.maxUpdateRate, MaxUpdateRate)
    IN /\ call.setConfig = valid
       /\ valid => config.updateRate = v
       /\ ~valid => (call.message = "error" /\ config = call.before)

(***************************************************************************)
(* RateSpec: the plugin started with either configuration of the host,     *)
(* keys registered and pressed.                                            *)
(***************************************************************************)
RateInit ==
  /\ cache = EmptyCache
  /\ now = StartNow
  /\ call = NoCall
  /\ connectedDevices = {}
  /\ keyData = [u \in Uids |-> NoKey]
  /\ updateIntervals = [n \in Names |-> NoInterval]
  /\ unreferenced = {}
  /\ tasks = {}
  /\ player \in PlayerStates
  /\ artworkFile = NoFile
  /\ lastDraw = NoDraw
  /\ lastQuery = NoQuery
  /\ lastError = "none"
  /\ events = 0
  /\ config \in StoredConfigs
  /\ display = "ok"

RateNext ==
  \/ PluginAlive
  \/ PluginData
  \/ ResumeAliveConfig
  \/ ResumeAliveKeyConfig
  \/ ResumeDataConfig
  \/ ResumeDataKeyConfig
  \/ ResumeCommand
  \/ ResumeRunning
  \/ ResumeIdentity
  \/ ResumeFetch
  \/ ResumeReadFile
  \/ ResumeUnlink

RateSpec == RateInit /\ [][RateNext]_vars

\* C28: every full-refresh timer the plugin schedules has an interval
\* within [500, 60000] ms, also when the configuration of the host holds no
\* updateRate yet (3000 ms is then used).
\* The handlers pass the updateRate of plugin.getConfig() to setInterval as
\* it is, undefined included: the statement fails.
C28_FullRefreshDelayInRange ==
  \A tm \in running(updateIntervals, unreferenced) :
    tm.callback \in {"full", "fullData"} =>
      (tm.delay >= MinUpdateRate /\ tm.delay <= MaxUpdateRate)

\* ---------------------------------------------------------------------------
\* C29: within one execution of the full-track query, no other callback
\* changes the cache between the point where the query reads the cache to
\* decide hit or miss and the point where it merges the fetched snapshot:
\* while a query waits for its fetch, for the artwork file or for its
\* removal, a step of anything else leaves the cache as it is.
\* The query awaits osascript and the file system between the read
\* (part_003:140) and the merge (part_003:207): the statement fails.
C29_CacheUntouchedDuringFetch ==
  [][\A t \in tasks :
       (t.pc \in {"fetch", "readFile", "unlink"} /\ t \in tasks') =>
         cache' = cache]_vars

\* No device is connected and no plugin.alive event waits for its first
\* getConfig: plugin.stop or plugin.unload has run since the last
\* plugin.alive added its device, or no plugin.alive has arrived at all.
StoppedWindow ==
  /\ connectedDevices = {}
  /\ \A t \in tasks : ~(t.kind = "alive" /\ t.pc = "config1")

\* C30: from plugin.stop or plugin.unload until the next plugin.alive event
\* arrives, no timer is created and no timer callback starts, also when a
\* plugin.alive or plugin.data handler was suspended at the stop and
\* resumes afterwards.
\* A handler that resumes after the stop goes on to its setInterval calls,
\* and the intervals that updateIntervals no longer refers to are not
\* cleared by the stop: the statement fails.
C30_NothingAfterStop ==
  [][StoppedWindow =>
       /\ running(updateIntervals', unreferenced') \subseteq
            running(updateIntervals, unreferenced)
       /\ ~(TimerFire \/ TimerFireThrows)]_vars

(***************************************************************************)
(* DrawSpec: the plugin with a host whose plugin.draw throws or rejects    *)
(* (Spec has the host whose plugin.draw succeeds); keys registered and     *)
(* pressed, timers firing.                                                 *)
(***************************************************************************)
DrawInit ==
  /\ cache = EmptyCache
  /\ now = StartNow
  /\ call = NoCall
  /\ connectedDevices = {}
  /\ keyData = [u \in Uids |-> NoKey]
  /\ updateIntervals = [n \in Names |-> NoInterval]
  /\ unreferenced = {}
  /\ tasks = {}
  /\ player \in PlayerStates
  /\ artworkFile = NoFile
  /\ lastDraw = NoDraw
  /\ lastQuery = NoQuery
  /\ lastError = "none"
  /\ events = 0
  /\ config = DefaultConfig
  /\ display \in DrawOutcomes \ {"ok"}

DrawNext ==
  \/ PluginAlive
  \/ PluginData
  \/ TimerFire
  \/ ResumeAliveConfig
  \/ ResumeAliveKeyConfig
  \/ ResumeDataConfig
  \/ ResumeDataKeyConfig
  \/ ResumeCommand
  \/ ResumeRunning
  \/ ResumeIdentity
  \/ ResumeFetch
  \/ ResumeReadFile
  \/ ResumeUnlink
  \/ ResumePosRunning
  \/ ResumePosition

DrawSpec == DrawInit /\ [][DrawNext]_vars

\* The run of the suspended task t with the given answers of its await, had
\* plugin.draw succeeded.
SuccessfulRun(t, ok, position, saved) ==
  LET S == [stateOf(t) EXCEPT !.display = "ok"] IN
    CASE t.kind = "alive" /\ t.pc = "config2" -> resumeAliveKeyConfig(S, t)
      [] t.pc = "running" -> resumeRunning(S, t, ok)
      [] t.pc = "identity" -> resumeIdentity(S, t, ok, position)
      [] t.pc = "fetch" -> resumeFetch(S, t, ok, saved)
      [] t.pc = "readFile" -> resumeReadFile(S, t, ok)
      [] t.pc = "unlink" -> resumeUnlink(S, t)
      [] t.pc = "position" -> resumePosition(S, t, ok, position)
      [] OTHER -> S

\* The step is the run R of the task t, whatever became of its draw.
StepIs(R, t) ==
  /\ cache' = R.cache
  /\ connectedDevices' = R.devices
  /\ keyData' = R.keyData
  /\ updateIntervals' = R.iv.table
  /\ unreferenced' = R.iv.unreferenced
  /\ player' = R.player
  /\ artworkFile' = R.artworkFile
  /\ lastDraw' = R.lastDraw
  /\ tasks' = (tasks \ {t}) \cup (IF R.task = Finished THEN {} ELSE {R.task})

\* ---------------------------------------------------------------------------
\* C31: when plugin.draw throws synchronously or its promise rejects, the
\* failure does not leave safeDraw (it is logged or swallowed there), the
\* handler or timer callback that drew goes on exactly as it does after a
\* draw that succeeded (same keys, same timers, same single draw, same
\* continuation), and every timer that ran before the step still runs.
C31_DrawFailureContained ==
  [][(display # "ok" /\ lastDraw'.issued) =>
       /\ lastError' \in {"logged", "swallowed"}
       /\ \E t \in tasks, ok \in BOOLEAN, position \in Positions, saved \in BOOLEAN :
            StepIs(SuccessfulRun(t, ok, position, saved), t)
       /\ \A n \in Names :
            updateIntervals[n] # NoInterval => updateIntervals'[n] # NoInterval
       /\ unreferenced \subseteq unreferenced']_vars

\* plugin.alive drew on a host whose plugin.draw throws, and went on to
\* create the timers of the key.
C31_Witness ==
  /\ display = "throws"
  /\ lastDraw.issued
  /\ lastError = "logged"
  /\ lastDraw.uid = "k1"
  /\ updateIntervals[mainName("k1")] # NoInterval
  /\ updateIntervals[progressName("k1")] # NoInterval

\* ---------------------------------------------------------------------------
\* C32: in every reachable state of the cache, artwork and title are set
\* only if trackId is set, whatever sequence of updateTrackCache,
\* updatePositionInCache and clearTrackCache calls led there.
\* updateTrackCache stores `trackId || null` next to the fields of the
\* snapshot without looking at the trackId: the statement fails for a call
\* with a null or empty trackId.
C32_ArtworkNeedsTrackId ==
  cache.trackId = Null => (cache.artwork = Null /\ cache.title = Null)

\* The title updateTrackInfo is to give a key for the snapshot r of the run.
TitleFor(r) ==
  IF r = NullInfo THEN "No track info"
  ELSE IF r.title = NoTrackTitle THEN "No track playing"
  ELSE r.title \o "\n" \o r.artist

\* ---------------------------------------------------------------------------
\* C33: whenever a run of updateTrackInfo that started on a connected device
\* completes, the title of its key is "No track info" if the query of that
\* run failed, "No track playing" if it found nothing playing, and
\* title\nartist of the snapshot of that run otherwise; the title of an
\* earlier run never stays.
C33_TitleOfThisRun ==
  [][lastQuery'.via # "none" =>
       /\ lastDraw'.called
       /\ keyData'[lastDraw'.uid].title = TitleFor(lastQuery'.ret)]_vars

\* The query of a full refresh failed on a key that showed a track before:
\* the key shows "No track info".
C33_Witness ==
  /\ lastQuery.via = "error"
  /\ lastQuery.ret = NullInfo
  /\ lastDraw.issued
  /\ keyData[lastDraw.uid].title = "No track info"
  /\ cache.trackId # Null

\* ---------------------------------------------------------------------------
\* C34: in every reachable state with a cached trackId, the cached title,
\* artist and album are those the player has for that track id (an empty
\* one being stored as null), also when the player changes track or stops
\* between the identity probe and the fetch of one query.
\* The query stores the trackId of its probe with the metadata a later
\* script reads from whatever the player plays by then: the statement fails.
C34_CachedMetadataOfCachedId ==
  cache.trackId # Null =>
    /\ cache.title = OrStr(TitleOf(cache.trackId), Null)
    /\ cache.artist = OrStr(ArtistOf(cache.trackId), Null)
    /\ cache.album = OrStr(AlbumOf(cache.trackId), Null)

\* ---------------------------------------------------------------------------
\* C35: a query that is answered from the cache, or that returns the
\* nothing-playing snapshot, leaves the cache as it was, position and
\* timestamp included, in the step that probes whether the player runs as in
\* the step that returns.  A hit is therefore served only within five
\* minutes of the timestamp, and the timestamp changes only when a fetch
\* replaces the entry (to the time of the replacement) or when the cache is
\* cleared: reading an entry never extends its validity.
C35_HitLeavesCache ==
  [][/\ lastQuery'.via \in {"hit", "nothing"} => cache' = cache
     /\ \A t \in tasks, ok \in BOOLEAN : ResumeRunningOf(t, ok) => cache' = cache
     /\ lastQuery'.via = "hit" =>
          (cache'.trackId # Null /\ now' - cache'.timestamp <= FiveMinutes)
     /\ cache'.timestamp # cache.timestamp =>
          \/ lastQuery'.via = "fetched" /\ cache'.timestamp = now'
          \/ cache' = EmptyCache]_vars

\* A query was answered from the cache exactly five minutes after the entry
\* was written, with a position other than the cached one: the entry is as
\* it was.
C35_Witness ==
  /\ lastQuery.via = "hit"
  /\ now - cache.timestamp = FiveMinutes
  /\ lastQuery.ret.position # cache.position

(***************************************************************************)
(* ProgressSpec: the progress timer of plugin.alive ticking on one key of  *)
(* device d1, while the device stops or comes alive and a transport        *)
(* command clears the cache.  call.key is the key object (its title as     *)
(* the lines title.split("\n") yields), call.before the same when the tick *)
(* started, call.op where the tick is: "running" and "position" are its    *)
(* two awaits inside getPlaybackPosition.                                  *)
(***************************************************************************)
\* plugin.js:19-23
formatTime(seconds) ==
  LET mins == seconds \div 60
      secs == seconds % 60
  IN ToString(mins) \o ":" \o (IF secs < 10 THEN "0" ELSE "") \o ToString(secs)

progressOnlyIgnoresCache(key, r, cachedInfo) ==
  IF ~r.isPlaying THEN [key |-> key, draws |-> FALSE]
  ELSE [key |-> [key EXCEPT !.style.progress = progressOf(r.position, r.duration)],
        draws |-> TRUE]

\* plugin.js:164-190: updateProgressOnly once getPlaybackPosition has
\* returned r: the key, and whether safeDraw is called.
progressOnly(key, r, cachedInfo) ==
  IF ~r.isPlaying THEN [key |-> key, draws |-> FALSE]
  ELSE IF ~Truthy(cachedInfo.trackId) THEN [key |-> key, draws |-> FALSE]
  ELSE [key |->
          [key EXCEPT
             !.style.progress = progressOf(r.position, r.duration),
             !.title = IF Len(@) >= 3
                       THEN [@ EXCEPT ![3] = formatTime(r.position) \o " / "
                                               \o formatTime(r.duration)]
                       ELSE @],
        draws |-> TRUE]

\* The titles a key can have when the timer ticks: those plugin.alive and
\* updateTrackInfo give it, and one of three lines that the host sent.
ProgressTitles ==
  {<<"Nothing playing">>, <<"No track playing">>,
   <<TitleOf("t1"), ArtistOf("t1")>>, <<"Line 1", "Line 2", "Line 3">>}

ProgressCaches ==
  {c \in CachedEntries : c.trackId \in {Null, "t1"} /\ c.position = 0}

ProgressInit ==
  /\ cache \in ProgressCaches
  /\ now = StartNow
  /\ connectedDevices \in SUBSET Devices
  /\ keyData = [u \in Uids |-> NoKey]
  /\ updateIntervals = [n \in Names |-> NoInterval]
  /\ unreferenced = {}
  /\ tasks = {}
  /\ player \in PlayerStates
  /\ artworkFile = NoFile
  /\ lastDraw = NoDraw
  /\ lastQuery = NoQuery
  /\ lastError = "none"
  /\ config = DefaultConfig
  /\ display = "ok"
  /\ events = 0
  /\ call \in {[op |-> "idle", connected |-> FALSE, poll |-> defaultPosition,
                before |-> k, key |-> k] :
                 k \in {[style |-> aliveStyle(hs), title |-> ti] :
                          hs \in HostStyles, ti \in ProgressTitles}}

ProgressFrame ==
  UNCHANGED <<now, keyData, updateIntervals, unreferenced, tasks, player,
              artworkFile, lastQuery, lastError, events, config, display>>

\* plugin.js:156-162: the tick up to the await of getPlaybackPosition.
TickStarts ==
  /\ call.op \notin {"running", "position"}
  /\ call' = [call EXCEPT
                !.op = IF "d1" \in connectedDevices THEN "running" ELSE "skipped",
                !.connected = ("d1" \in connectedDevices),
                !.poll = defaultPosition,
                !.before = call.key]
  /\ lastDraw' = NoDraw
  /\ UNCHANGED <<cache, connectedDevices>>
  /\ ProgressFrame

\* The end of the tick: what getPlaybackPosition returned, then
\* plugin.js:164-190.
tickEnds(r) ==
  LET res == progressOnly(call.key, r, getCachedTrackInfo(cache')) IN
    /\ call' = [call EXCEPT !.op = "returned", !.poll = r, !.key = res.key]
    /\ lastDraw' = IF res.draws THEN safeDraw("d1", "k1", connectedDevices)
                   ELSE NoDraw
    /\ UNCHANGED connectedDevices
    /\ ProgressFrame

\* part_003:80-83
RunningReturns ==
  /\ call.op = "running"
  /\ \E ok \in BOOLEAN :
       IF isAppleMusicRunning(player, ok)
       THEN /\ call' = [call EXCEPT !.op = "position"]
            /\ lastDraw' = NoDraw
            /\ UNCHANGED <<cache, connectedDevices>>
            /\ ProgressFrame
       ELSE cache' = cache /\ tickEnds(defaultPosition)

\* part_003:84-112
PositionReturns ==
  /\ call.op = "position"
  /\ \E ok \in BOOLEAN, position \in Positions :
       /\ cache' = afterPosition(stateOf(Finished), ok, position).cache
       /\ tickEnds(positionReply(player, ok, position))

\* plugin.stop and plugin.unload (plugin.js:409-423) while the tick waits.
DeviceStops ==
  /\ connectedDevices # {}
  /\ connectedDevices' = stopHandler(stateOf(Finished)).devices
  /\ lastDraw' = NoDraw
  /\ UNCHANGED <<cache, call>>
  /\ ProgressFrame

\* plugin.alive (plugin.js:220)
DeviceComesAlive ==
  /\ "d1" \notin connectedDevices
  /\ connectedDevices' = connectedDevices \cup {"d1"}
  /\ lastDraw' = NoDraw
  /\ UNCHANGED <<cache, call>>
  /\ ProgressFrame

\* A transport command of a key press clears the cache (utils.js:64-74).
CommandClears ==
  /\ cache # clearTrackCache
  /\ cache' = clearTrackCache
  /\ lastDraw' = NoDraw
  /\ UNCHANGED <<connectedDevices, call>>
  /\ ProgressFrame

ProgressNext ==
  \/ TickStarts
  \/ RunningReturns
  \/ PositionReturns
  \/ DeviceStops
  \/ DeviceComesAlive
  \/ CommandClears

ProgressSpec == ProgressInit /\ [][ProgressNext]_vars

\* The step ends a tick.
TickEnds == call' # call /\ call'.op \in {"returned", "skipped"}

\* The first two lines of the title are those of the start of the tick.
FirstTwoLinesKept(k, b) ==
  /\ Len(k.title) = Len(b.title)
  /\ \A i \in 1..Len(b.title) : i <= 2 => k.title[i] = b.title[i]

\* ---------------------------------------------------------------------------
\* C36: a tick of the progress timer issues a draw only if the device is
\* connected, the poll reports isPlaying true and the cache holds a trackId
\* when the poll returns; in every other case it issues no draw and leaves
\* the title and the style of the key unchanged; it never changes the first
\* two lines of the title.
\* With "connected" taken when the poll returns, the statement fails: a
\* device that stops during the poll gets no draw, yet the key's progress
\* (and the third line of its title) is updated.
C36_ProgressTick ==
  [][TickEnds =>
       LET all == /\ "d1" \in connectedDevices'
                  /\ call'.poll.isPlaying
                  /\ cache'.trackId # Null
       IN /\ lastDraw'.issued => all
          /\ ~all => (~lastDraw'.issued /\ call'.key = call'.before)
          /\ FirstTwoLinesKept(call'.key, call'.before)]_vars

\* C36, amended: the device is looked up when the tick starts (and again by
\* safeDraw); the poll and the cache are examined when the poll returns.  A
\* draw is issued only if the device was connected at both times, the poll
\* reports isPlaying true and the cache holds a trackId; a tick that finds
\* the device missing at its start, a poll that is not playing or an empty
\* cache leave the title and the style unchanged and issue no draw; it never
\* changes the first two lines of the title.
C36_ProgressTickFromStart ==
  [][TickEnds =>
       LET all == /\ call'.connected
                  /\ call'.poll.isPlaying
                  /\ cache'.trackId # Null
       IN /\ lastDraw'.issued => (all /\ "d1" \in connectedDevices')
          /\ ~all => (~lastDraw'.issued /\ call'.key = call'.before)
          /\ FirstTwoLinesKept(call'.key, call'.before)]_vars

\* A tick drew a key whose title has three lines: progress and the third
\* line are new.
C36_Witness ==
  /\ call.op = "returned"
  /\ lastDraw.issued
  /\ Len(call.key.title) = 3
  /\ call.key.title[3] = "0:30 / 3:20"
  /\ call.key.style.progress # call.before.style.progress

====
